---- MODULE Spec2Model ----
(***************************************************************************)
(* git-annex-archiver: the content allocator (commands/allocate.rs), the   *)
(* remote prober (commands.rs, test_available_remotes) and the drop-marker *)
(* primitive (platform/macos.rs).                                          *)
(*                                                                         *)
(* Paths and remotes are small integers.  The file-system state of a       *)
(* repository is read when the pass reaches that repository (EnterRepo);   *)
(* only the repository being processed is kept.                            *)
(*                                                                         *)
(* Time: the allocator only compares a file's modification time with the   *)
(* watermark (allocate.rs:83) and with the last commit (allocate.rs:190),  *)
(* both with >.  Three instants 0 < 1 < 2 give every arrangement of a      *)
(* modification time against the two thresholds, with the earlier          *)
(* threshold at 0 and the later one at 0 or 1.                             *)
(*                                                                         *)
(* External commands whose exit status the code does not look at (git      *)
(* config, xattr writes that only change a log line) take effect.          *)
(*                                                                         *)
(* Further specifications, each over the same variables with the others    *)
(* at rest: SpecSync, passes of make_embedded_git_copies (commands/sync.rs)*)
(* over one embedded .git directory and its mirror; SpecMaintain, one call *)
(* of maintain (commands/maintain.rs) under its timeout, one step per      *)
(* external process; SpecRunner, one call of command_output_logfile        *)
(* (commands.rs), one step per line written, line read and select! branch. *)
(*                                                                         *)
(* SpecSyncCmd is one call of sync (commands/sync.rs) over every           *)
(* repository, one step per call it makes; SpecCommands is a call of       *)
(* allocate, of sync or of maintain.  A line written to a log reaches the  *)
(* log when the write returns.                                             *)
(*                                                                         *)
(* SpecTags is the two marker setters of platform/macos.rs on files that   *)
(* carry other tags.  SpecDaemon is run_daemon (daemon.rs): the three      *)
(* workers with their channels of capacity 1, the tasks spawned to send a  *)
(* message, the event loop and the menu; a run of a command is a step that *)
(* starts it and a step that ends it, and the user makes at most           *)
(* MaxRequests clicks and schedule triggers.                               *)
(*                                                                         *)
(* In SpecSync no source file carries a modification time later than the   *)
(* clock, and stamping the mirror root (sync.rs:293, unwrapped) succeeds.  *)
(* In SpecRunner child.wait() yields the exit status.                      *)
(***************************************************************************)
EXTENDS Integers, Sequences, FiniteSets, Bags, TLC

\* ---- bounds ----
NumRepos == 2
NumPaths == 2
NumRemotes == 2
NumEntries == 3
MaxPasses == 2
MaxEmbedded == 1
MaxLines == 2
MaxTags == 2
MaxRequests == 2
MaxClock == 1

\* ---- program constants ----
GET_MAX_CT == 4
TAG_XATTR_DROP_ITEM_VALUE == "Dropped\n1"

None == -1
Repos == 1..NumRepos
Paths == 1..NumPaths
Times == {0, 1, 2}
Thresholds == {0, 1}
RemoteNames == 1..NumRemotes
Entries == 1..NumEntries

VARIABLES
  pc,                \* position of allocate(): "repo", "list", "send", "get", "done"
  repo_index,        \* number of repositories already passed
  is_ok, is_repo_ok, \* allocate.rs:28, :32
  result,            \* value returned by allocate(), read at pc = "done"
  received_since,    \* the watermark argument, None for a full pass
  tracked_paths,     \* git ls-files, existing on disk
  tags,              \* per path: the file's user tags (a sequence of strings)
  present,           \* per path: content is in the local store
  mtime,             \* per path: on-disk modification time
  commit_date,       \* git log -1 --format=%aI of the repository
  tracked_dropped_paths, received_paths, send_paths, uncommitted_paths,
  send_todo,         \* send paths the for loop has not visited yet
  has_tested_available_remotes,
  send_path, get_ct, is_command_ok,   \* the fetch retry loop
  probeCalls,        \* history: calls of test_available_remotes in this repository
  opPaths,           \* history: paths git annex drop / get was invoked on
  lastOpFailed,      \* history: paths whose last drop / get invocation failed
  getCalls,          \* history: git annex get invocations on the path last visited
  guarded,           \* history: paths diverted by the uncommitted-edit guard
  someRepoFailed,    \* history: a repository passed had a failed drop / exhausted fetch
  logQueried,        \* history: git annex log was run for this repository
  a_log_last,        \* the last line of the log once allocate() has returned
  remotes,           \* git remote: the listing, in the tool's order
  url,               \* git remote get-url, per remote, as a token sequence
  config,            \* per remote: [cost, ignore] entries of the git config
  config0,           \* history: config before the last probe pass
  probes,            \* history: per remote [ok, ms] of the last probe pass
  available_remotes, \* value returned by test_available_remotes
  lsRemoteCalls,     \* history: per remote, git ls-remote runs of the last probe pass
  configWrites,      \* history: <<remote, key>> entries the last probe pass wrote
  probed,            \* history: a probe pass has run
  master,            \* per entry of the embedded .git directory: "none", "file", "dir"
  master_mtime,      \* per entry: modification time of the source file
  copy,              \* per entry: what Copies/<name>.git holds at that relative path
  copy_mtime,        \* modification time of Copies/<name>.git, None when it is absent
  s_pass,            \* passes of make_embedded_git_copies over the mirror so far
  s_last,            \* history: what the last pass did
  s_prevFaultFree,   \* history: the pass before the last met no failing operation
  m_pc,              \* position of maintain(): "prep", "prep-run", "check", "check-probe",
                     \* "check-fsck", "expired", "returned"
  m_repo_index,      \* index of the repository in the loop m_pc is in
  m_todo,            \* external processes the current stretch of the pass still spawns
  m_running,         \* the external process the pass awaits, NoStep when none
  m_fsck_remotes,    \* entries of the shuffled remotes list not yet visited
  m_result,          \* value returned by maintain()
  m_log,             \* overall marker lines in the log of maintain(), which both of its
                     \* log targets write to (daemon.rs:445, main.rs:80-81)
  m_log_sync,        \* history: the lines among them written through log_target_sync
  m_killed,          \* the process killed when the pass was dropped, NoStep when none
  m_orphan,          \* the process left running when the pass was dropped
  m_cmd_failed,      \* history: a command of the pass exited unsuccessfully
  m_unreachable,     \* history: a repository had remotes listed and none available
  r_pc,              \* position of command_output_logfile(): "start", "loop", "returned", "panicked"
  r_proc,            \* the child: "none", "running", "exited"
  r_exit_ok,         \* exit status of the child is success
  r_out, r_err,      \* lines written to the stdout / stderr pipe and not yet read
  r_written,         \* number of lines the child has written, in order of arrival
  r_log,             \* the log sink
  r_success,         \* value returned by command_output_logfile()
  y_pc,              \* position of sync(): "probe", "copies", "assume", "assist", "reset",
                     \* "returned"
  includes_all,      \* the --all argument of sync()
  y_repo_index,      \* number of repositories sync() has passed
  repo_ok,           \* sync.rs:313, the Vec<bool> sync() returns
  unchanged_paths,   \* sync.rs:328
  assume_unchanged,  \* paths of the repository whose index entry has the assume-unchanged bit
  y_usable,          \* history: per repository passed, the prober returned a remote
  y_assisted,        \* history: per repository passed, git annex assist was run
  y_log_last,        \* the last line of the log once sync() has returned
  y_commands,        \* history: the commands sync() ran on the repository it is in or
                     \* has just left, in order
  x_tags,            \* per path: the user tags in the file's extended attribute
  x_call,            \* history: the last call of a marker setter, [op, path, before, wrote]
  d_now,             \* the daemon's clock, what Local::now() returns
  d_count,           \* history: the menu clicks and schedule triggers so far
  d_senders,         \* per worker: the bag of messages held by spawned tasks that await send
  d_rx,              \* per worker: the messages in its channel
  d_running,         \* per worker: the message whose run is in progress, or NoMessage
  is_schedule_enabled, \* sync and maintain workers: the worker's schedule flag
  prev_ended_dt,     \* sync and maintain workers: the end time of the previous run
  prev_command_dt,   \* allocate worker: the timestamp of the previous request
  d_events,          \* the user events sent to the event loop and not yet handled
  tray_icon,         \* "base", "active" or "error"
  item_enabled,      \* menu: whether the items that start a command are enabled
  menu_is_enabled,   \* menu: sync_schedule_is_enabled, maintain_schedule_is_enabled
  d_skipped,         \* history: the scheduled requests a worker discarded, and why
  d_alloc,           \* history: the last allocation pass and the result of the one before
  d_handled          \* history: the user event the event loop handled last

allocVars == <<pc, repo_index, is_ok, is_repo_ok, result, received_since,
               tracked_paths, tags, present, mtime, commit_date,
               tracked_dropped_paths, received_paths, send_paths,
               uncommitted_paths, send_todo, has_tested_available_remotes,
               send_path, get_ct, is_command_ok, probeCalls,
               opPaths, lastOpFailed, getCalls, guarded, someRepoFailed,
               logQueried, a_log_last>>
fsVars == <<tracked_paths, present, mtime, commit_date>>
listVars == <<tracked_dropped_paths, received_paths, send_paths, uncommitted_paths>>
getVars == <<send_path, get_ct, is_command_ok>>
proberVars == <<remotes, url, config0, probes, available_remotes, lsRemoteCalls,
                configWrites, probed>>
syncVars == <<master, master_mtime, copy, copy_mtime, s_pass, s_last, s_prevFaultFree>>
maintVars == <<m_pc, m_repo_index, m_todo, m_running, m_fsck_remotes, m_result,
               m_log, m_log_sync, m_killed, m_orphan, m_cmd_failed, m_unreachable>>
runVars == <<r_pc, r_proc, r_exit_ok, r_out, r_err, r_written, r_log, r_success>>
syncCmdVars == <<y_pc, includes_all, y_repo_index, repo_ok, unchanged_paths,
                 assume_unchanged, y_usable, y_assisted, y_log_last, y_commands>>
tagVars == <<x_tags, x_call>>
daemonVars == <<d_now, d_count, d_senders, d_rx, d_running, is_schedule_enabled,
                prev_ended_dt, prev_command_dt, d_events, tray_icon, item_enabled,
                menu_is_enabled, d_skipped, d_alloc, d_handled>>
extraVars == <<tagVars, daemonVars>>
otherVars == <<syncVars, maintVars, runVars, syncCmdVars, extraVars>>
vars == <<allocVars, proberVars, config, otherVars>>

\* ---- platform/macos.rs: the drop marker is one tag among the file's tags ----
Contains(seq, x) == \E i \in 1..Len(seq) : seq[i] = x

get_file_tags(t, p) == t[p]

has_file_drop_attr(t, p) == Contains(get_file_tags(t, p), TAG_XATTR_DROP_ITEM_VALUE)

set_file_drop_attr_skipped(t, p) == t

set_file_drop_attr(t, p) ==
  IF ~Contains(get_file_tags(t, p), TAG_XATTR_DROP_ITEM_VALUE)
  THEN [t EXCEPT ![p] = Append(get_file_tags(t, p), TAG_XATTR_DROP_ITEM_VALUE)]
  ELSE t

unset_file_drop_attr_skipped(t, p) == t

\* the filter closure is `false && !x.eq(..)`: it keeps no tag at all
unset_file_drop_attr(t, p) ==
  IF Contains(get_file_tags(t, p), TAG_XATTR_DROP_ITEM_VALUE)
  THEN [t EXCEPT ![p] = SelectSeq(get_file_tags(t, p),
                          LAMBDA x : FALSE /\ x # TAG_XATTR_DROP_ITEM_VALUE)]
  ELSE t

\* ---- commands.rs: test_available_remotes ----
GCRYPT_RSYNC_PREFIX == <<"gcrypt::", "rsync://">>

Urls ==
  { <<"gcrypt::", "rsync://", "host">>, <<"gcrypt::", "ssh://", "host">>,
    <<"rsync://", "host">>, <<"https://", "host">> }

Durations == {50, 99, 100, 950}

ProbeOutcomes == [ok : BOOLEAN, ms : Durations]

Unset == "unset"

NoConfig == [cost |-> None, ignore |-> Unset]

\* str::starts_with on the token sequence of a URL
starts_with(s, prefix) ==
  /\ Len(s) >= Len(prefix)
  /\ \A i \in 1..Len(prefix) : s[i] = prefix[i]

ProbeCostRounded(ms) == 200 + (ms + 50) \div 100

\* commands.rs:148, integer division of the elapsed milliseconds
ProbeCost(ms) == 200 + ms \div 100

ProbeRemoteKeepFailed(remote, u, pr, st) ==
  IF starts_with(u[remote], GCRYPT_RSYNC_PREFIX)
  THEN IF pr[remote].ok
       THEN [cfg |-> [st.cfg EXCEPT ![remote] = [cost |-> ProbeCost(pr[remote].ms),
                                                  ignore |-> "false"]],
             avail |-> Append(st.avail, remote),
             checks |-> [st.checks EXCEPT ![remote] = @ + 1],
             writes |-> st.writes \cup {<<remote, "annex-cost">>, <<remote, "annex-ignore">>}]
       ELSE [cfg |-> [st.cfg EXCEPT ![remote].ignore = "true"],
             avail |-> Append(st.avail, remote),
             checks |-> [st.checks EXCEPT ![remote] = @ + 1],
             writes |-> st.writes \cup {<<remote, "annex-ignore">>}]
  ELSE [st EXCEPT !.avail = Append(st.avail, remote)]

ProbeRemoteNoIgnore(remote, u, pr, st) ==
  IF starts_with(u[remote], GCRYPT_RSYNC_PREFIX)
  THEN IF pr[remote].ok
       THEN [cfg |-> [st.cfg EXCEPT ![remote].cost = ProbeCost(pr[remote].ms)],
             avail |-> Append(st.avail, remote),
             checks |-> [st.checks EXCEPT ![remote] = @ + 1],
             writes |-> st.writes \cup {<<remote, "annex-cost">>}]
       ELSE [cfg |-> [st.cfg EXCEPT ![remote].ignore = "true"],
             avail |-> st.avail,
             checks |-> [st.checks EXCEPT ![remote] = @ + 1],
             writes |-> st.writes \cup {<<remote, "annex-ignore">>}]
  ELSE [st EXCEPT !.avail = Append(st.avail, remote)]

ProbeRemoteAnyGcrypt(remote, u, pr, st) ==
  IF starts_with(u[remote], <<"gcrypt::">>)
  THEN IF pr[remote].ok
       THEN [cfg |-> [st.cfg EXCEPT ![remote] = [cost |-> ProbeCost(pr[remote].ms),
                                                  ignore |-> "false"]],
             avail |-> Append(st.avail, remote),
             checks |-> [st.checks EXCEPT ![remote] = @ + 1],
             writes |-> st.writes \cup {<<remote, "annex-cost">>, <<remote, "annex-ignore">>}]
       ELSE [cfg |-> [st.cfg EXCEPT ![remote].ignore = "true"],
             avail |-> st.avail,
             checks |-> [st.checks EXCEPT ![remote] = @ + 1],
             writes |-> st.writes \cup {<<remote, "annex-ignore">>}]
  ELSE [st EXCEPT !.avail = Append(st.avail, remote)]

ProbeRemoteRetry(remote, u, pr, st) ==
  IF starts_with(u[remote], GCRYPT_RSYNC_PREFIX)
  THEN IF pr[remote].ok
       THEN [cfg |-> [st.cfg EXCEPT ![remote] = [cost |-> ProbeCost(pr[remote].ms),
                                                  ignore |-> "false"]],
             avail |-> Append(st.avail, remote),
             checks |-> [st.checks EXCEPT ![remote] = @ + 1],
             writes |-> st.writes \cup {<<remote, "annex-cost">>, <<remote, "annex-ignore">>}]
       ELSE [cfg |-> [st.cfg EXCEPT ![remote].ignore = "true"],
             avail |-> st.avail,
             checks |-> [st.checks EXCEPT ![remote] = @ + 2],
             writes |-> st.writes \cup {<<remote, "annex-ignore">>}]
  ELSE [st EXCEPT !.avail = Append(st.avail, remote)]

\* commands.rs:125-190: the body of the for loop for one remote; st is the
\* git config, the list built so far, and the history of what ran
ProbeRemote(remote, u, pr, st) ==
  IF starts_with(u[remote], GCRYPT_RSYNC_PREFIX)
  THEN IF pr[remote].ok
       THEN [cfg |-> [st.cfg EXCEPT ![remote] = [cost |-> ProbeCost(pr[remote].ms),
                                                  ignore |-> "false"]],
             avail |-> Append(st.avail, remote),
             checks |-> [st.checks EXCEPT ![remote] = @ + 1],
             writes |-> st.writes \cup {<<remote, "annex-cost">>, <<remote, "annex-ignore">>}]
       ELSE [cfg |-> [st.cfg EXCEPT ![remote].ignore = "true"],
             avail |-> st.avail,
             checks |-> [st.checks EXCEPT ![remote] = @ + 1],
             writes |-> st.writes \cup {<<remote, "annex-ignore">>}]
  ELSE [st EXCEPT !.avail = Append(st.avail, remote)]

\* commands.rs:109-191: the for loop over the listing
RECURSIVE ProbeLoop(_, _, _, _, _)
ProbeLoop(i, listing, u, pr, st) ==
  IF i > Len(listing)
  THEN st
  ELSE ProbeLoop(i + 1, listing, u, pr, ProbeRemote(listing[i], u, pr, st))

\* commands.rs:97-199
test_available_remotes(listing, u, pr, cfg) ==
  ProbeLoop(1, listing, u, pr,
            [cfg |-> cfg, avail |-> <<>>,
             checks |-> [r \in RemoteNames |-> 0], writes |-> {}])

\* the remote listings git can print: sequences of distinct remote names
Listings ==
  { s \in UNION { [1..n -> RemoteNames] : n \in 0..NumRemotes } :
      \A i, j \in DOMAIN s : i # j => s[i] # s[j] }

\* ---- commands/allocate.rs: allocate ----
NoTags == [p \in Paths |-> <<>>]

FreshConfig == [r \in RemoteNames |-> NoConfig]

IdleProber ==
  /\ remotes = <<>>
  /\ url = [r \in RemoteNames |-> <<"https://", "host">>]
  /\ config0 = FreshConfig
  /\ probes = [r \in RemoteNames |-> [ok |-> FALSE, ms |-> 50]]
  /\ available_remotes = <<>>
  /\ lsRemoteCalls = [r \in RemoteNames |-> 0]
  /\ configWrites = {}
  /\ probed = FALSE

\* what a pass of the mirror synchronizer leaves in s_last before any pass
NoPass ==
  [prev_mtime |-> None, before |-> {}, ops |-> {}, errors |-> {}, faults |-> {}, walked |-> {},
   unprocessed |-> <<>>, attempted |-> {}, stamped |-> FALSE, root_error |-> FALSE]

SyncIdle ==
  /\ master = [n \in Entries |-> "none"]
  /\ master_mtime = [n \in Entries |-> 0]
  /\ copy = [n \in Entries |-> "none"]
  /\ copy_mtime = None
  /\ s_pass = 0
  /\ s_last = NoPass
  /\ s_prevFaultFree = FALSE

SyncCmdIdle ==
  /\ y_pc = "idle"
  /\ includes_all = FALSE
  /\ y_repo_index = 0
  /\ repo_ok = <<>>
  /\ unchanged_paths = {}
  /\ assume_unchanged = {}
  /\ y_usable = <<>>
  /\ y_assisted = <<>>
  /\ y_log_last = ""
  /\ y_commands = <<>>

\* a step of the maintenance pass: an external process, on a remote or on none
Here == 0

NoStep == [kind |-> "none", remote |-> Here]

MaintIdle ==
  /\ m_pc = "idle"
  /\ m_repo_index = 0
  /\ m_todo = <<>>
  /\ m_running = NoStep
  /\ m_fsck_remotes = {}
  /\ m_result = FALSE
  /\ m_log = <<>>
  /\ m_log_sync = <<>>
  /\ m_killed = NoStep
  /\ m_orphan = NoStep
  /\ m_cmd_failed = FALSE
  /\ m_unreachable = FALSE

RunnerIdle ==
  /\ r_pc = "idle"
  /\ r_proc = "none"
  /\ r_exit_ok = FALSE
  /\ r_out = <<>>
  /\ r_err = <<>>
  /\ r_written = 0
  /\ r_log = <<>>
  /\ r_success = FALSE

NoCall == [op |-> "none", path |-> None, before |-> <<>>, wrote |-> FALSE]

TagsIdle ==
  /\ x_tags = NoTags
  /\ x_call = NoCall

\* daemon.rs: the three workers, and the two of them that have a schedule
Workers == {"sync", "maintain", "allocate"}

Scheduled == {"sync", "maintain"}

\* types.rs:26-31; in_run is history: the message was built while a run of
\* its command was in progress
NoMessage == [message_type |-> "none", command_dt |-> None, repo_paths |-> <<>>,
              in_run |-> FALSE]

NoAllocation == [command_dt |-> None, received_since |-> None, is_ok |-> "none", prev_ok |-> "none"]

NoEvent == [name |-> "none", is_ok |-> <<>>]

\* daemon.rs:132-133, 292, 357-358, 417-418, 479: the daemon before it has
\* spawned a task
DaemonConstructed ==
  /\ d_now = 0
  /\ d_count = 0
  /\ d_rx = [w \in Workers |-> <<>>]
  /\ d_running = [w \in Workers |-> NoMessage]
  /\ is_schedule_enabled = [w \in Scheduled |-> TRUE]
  /\ prev_ended_dt = [w \in Scheduled |-> None]
  /\ prev_command_dt = None
  /\ d_events = <<>>
  /\ tray_icon = "base"
  /\ item_enabled = [w \in Workers |-> TRUE]
  /\ menu_is_enabled = [w \in Scheduled |-> TRUE]
  /\ d_skipped = {}
  /\ d_alloc = NoAllocation
  /\ d_handled = [event |-> NoEvent, is_maintain_enabled |-> TRUE, is_maintain_idle |-> TRUE]

DaemonIdle ==
  /\ DaemonConstructed
  /\ d_senders = [w \in Workers |-> EmptyBag]

ExtraIdle == TagsIdle /\ DaemonIdle

OthersIdle == SyncIdle /\ MaintIdle /\ RunnerIdle /\ SyncCmdIdle /\ ExtraIdle

Init ==
  /\ pc = "repo"
  /\ repo_index = 0
  /\ is_ok = TRUE
  /\ is_repo_ok = TRUE
  /\ result = FALSE
  /\ received_since \in {None} \cup Thresholds
  /\ tracked_paths = {}
  /\ tags = NoTags
  /\ present = [p \in Paths |-> TRUE]
  /\ mtime = [p \in Paths |-> 0]
  /\ commit_date = 0
  /\ tracked_dropped_paths = {}
  /\ received_paths = {}
  /\ send_paths = {}
  /\ uncommitted_paths = {}
  /\ send_todo = {}
  /\ has_tested_available_remotes = FALSE
  /\ send_path = None
  /\ get_ct = 0
  /\ is_command_ok = FALSE
  /\ probeCalls = 0
  /\ opPaths = {}
  /\ lastOpFailed = {}
  /\ getCalls = 0
  /\ guarded = {}
  /\ someRepoFailed = FALSE
  /\ logQueried = FALSE
  /\ a_log_last = ""
  /\ config = FreshConfig
  /\ IdleProber
  /\ OthersIdle

\* the marker setters applied to each path of a set (allocate.rs:135-140, 158-160)
SetDropOn(t, S) == [p \in Paths |-> IF p \in S THEN set_file_drop_attr(t, p)[p] ELSE t[p]]

UnsetDropOn(t, S) == [p \in Paths |-> IF p \in S THEN unset_file_drop_attr(t, p)[p] ELSE t[p]]

\* allocate.rs:29-32: the for loop reaches the next repository, whose working
\* tree, store and history are in some state.  What the pass never reads is
\* left at a fixed value: content and time of an untracked path, the times of
\* a full pass (it has no send path), the tags of an untracked path in a
\* watermark pass.
EnterRepo ==
  /\ pc = "repo"
  /\ repo_index < NumRepos
  /\ \E tp \in SUBSET Paths, tg \in [Paths -> {<<>>, <<TAG_XATTR_DROP_ITEM_VALUE>>}],
        pr \in [Paths -> BOOLEAN], mt \in [Paths -> Times], cd \in Thresholds :
       /\ \A p \in Paths \ tp : pr[p] /\ mt[p] = 0
       /\ received_since = None => (cd = 0 /\ \A p \in Paths : mt[p] = 0)
       /\ received_since = 1 => cd = 0
       /\ received_since # None => \A p \in Paths \ tp : tg[p] = <<>>
       /\ tracked_paths' = tp
       /\ tags' = tg
       /\ present' = pr
       /\ mtime' = mt
       /\ commit_date' = cd
  /\ is_repo_ok' = TRUE
  /\ pc' = "list"
  /\ tracked_dropped_paths' = {}
  /\ received_paths' = {}
  /\ send_paths' = {}
  /\ uncommitted_paths' = {}
  /\ send_todo' = {}
  /\ has_tested_available_remotes' = FALSE
  /\ probeCalls' = 0
  /\ opPaths' = {}
  /\ lastOpFailed' = {}
  /\ getCalls' = 0
  /\ guarded' = {}
  /\ logQueried' = FALSE
  /\ config' = FreshConfig
  /\ UNCHANGED <<repo_index, is_ok, result, a_log_last, received_since, getVars, someRepoFailed, proberVars, otherVars>>

\* allocate.rs:57-71: git annex find --not --in=here
TrackedDropped == {p \in tracked_paths : ~present[p]}

ModifiedPathsInclusive == {p \in tracked_paths : mtime[p] >= received_since}

\* allocate.rs:78-86
ModifiedPaths == {p \in tracked_paths : mtime[p] > received_since}

\* allocate.rs:88-90: git annex log runs only when some path was modified
\* after the watermark
LogQueried == received_since # None /\ ModifiedPaths # {}

\* allocate.rs:74-126: the sets received_paths can be (git annex log names
\* some of the modified paths it was given)
ReceivedChoicesNoneEmpty ==
  IF received_since = None
  THEN {{}}
  ELSE IF ModifiedPaths = {} THEN {{}} ELSE SUBSET ModifiedPaths

ReceivedChoices ==
  IF received_since = None
  THEN {tracked_paths}
  ELSE IF ModifiedPaths = {} THEN {{}} ELSE SUBSET ModifiedPaths

\* allocate.rs:142-161: git ls-files -o, existing on disk
UntrackedPaths == IF received_since = None THEN Paths \ tracked_paths ELSE {}

BookkeptNoSet(t, received, dropped) ==
  UnsetDropOn(UnsetDropOn(t, received \ dropped), UntrackedPaths)

BookkeptSetAll(t, received, dropped) ==
  UnsetDropOn(SetDropOn(t, received), UntrackedPaths)

\* allocate.rs:135-161
Bookkept(t, received, dropped) ==
  UnsetDropOn(UnsetDropOn(SetDropOn(t, received \cap dropped), received \ dropped),
              UntrackedPaths)

UncommittedOlder == {p \in tracked_paths : mtime[p] < commit_date}

\* allocate.rs:184-192
Uncommitted == {p \in tracked_paths : mtime[p] > commit_date}

\* allocate.rs:39-192: the three listings, the bookkeeping pass, the send list
ListAndBookkeep ==
  /\ pc = "list"
  /\ \E received \in ReceivedChoices :
       /\ tracked_dropped_paths' = TrackedDropped
       /\ received_paths' = received
       /\ tags' = Bookkept(tags, received, TrackedDropped)
       /\ send_paths' = tracked_paths \ received
       /\ send_todo' = tracked_paths \ received
       /\ uncommitted_paths' =
            IF Cardinality(tracked_paths \ received) > 0 THEN Uncommitted ELSE {}
  /\ logQueried' = LogQueried
  /\ has_tested_available_remotes' = FALSE
  /\ pc' = "send"
  /\ UNCHANGED <<repo_index, is_ok, is_repo_ok, result, a_log_last, received_since, fsVars,
                 getVars, probeCalls, opPaths, lastOpFailed, getCalls,
                 guarded, someRepoFailed, config, proberVars, otherVars>>

\* allocate.rs:194: the path the for loop visits next.  A HashSet iterates in
\* an arbitrary order; EnterRepo gives every path every combination of
\* attributes, so visiting in ascending order covers every order.
NextSendPath == CHOOSE p \in send_todo : \A q \in send_todo : p <= q

\* the remotes the allocator's repositories have: one remote, on the
\* encrypted rsync transport, reachable or not
AllocListing == <<1>>

AllocUrls == [r \in RemoteNames |-> <<"gcrypt::", "rsync://", "host">>]

AllocProbeOutcomes == { [r \in RemoteNames |-> [ok |-> b, ms |-> 50]] : b \in BOOLEAN }

\* allocate.rs:198-201, 225-228: the memoized call of test_available_remotes;
\* its returned list is discarded, its writes to the git config stay
LazyProbeNoMemo ==
  /\ \E pr \in AllocProbeOutcomes :
       config' = test_available_remotes(AllocListing, AllocUrls, pr, config).cfg
  /\ probeCalls' = probeCalls + 1
  /\ UNCHANGED has_tested_available_remotes

LazyProbe ==
  IF ~has_tested_available_remotes
  THEN /\ \E pr \in AllocProbeOutcomes :
            config' = test_available_remotes(AllocListing, AllocUrls, pr, config).cfg
       /\ probeCalls' = probeCalls + 1
       /\ has_tested_available_remotes' = TRUE
  ELSE UNCHANGED <<config, probeCalls, has_tested_available_remotes>>

RemainingAfterBreak(todo, p, is_path_ok) == IF is_path_ok THEN todo \ {p} ELSE {}

\* allocate.rs:194, 218-220: the for loop goes on to the paths not yet
\* visited, whether or not the operation on this path succeeded
RemainingAfter(todo, p, is_path_ok) == todo \ {p}

TagsAfterDropRevert(t, p, is_drop_ok) ==
  IF is_drop_ok THEN set_file_drop_attr(t, p) ELSE unset_file_drop_attr(t, p)

\* allocate.rs:215-219: the marker is written after a successful drop only
TagsAfterDrop(t, p, is_drop_ok) ==
  IF is_drop_ok THEN set_file_drop_attr(t, p) ELSE t

\* allocate.rs:195-221: marker set, content present
SendDrop(p) ==
  /\ pc = "send"
  /\ send_todo # {} /\ p = NextSendPath
  /\ has_file_drop_attr(tags, p)
  /\ p \notin tracked_dropped_paths
  /\ LazyProbe
  /\ IF p \in uncommitted_paths
     THEN /\ tags' = unset_file_drop_attr(tags, p)
          /\ guarded' = guarded \cup {p}
          /\ send_todo' = RemainingAfter(send_todo, p, TRUE)
          /\ UNCHANGED <<present, is_repo_ok, opPaths, lastOpFailed>>
     ELSE \E is_drop_ok \in BOOLEAN :
          /\ opPaths' = opPaths \cup {p}
          /\ tags' = TagsAfterDrop(tags, p, is_drop_ok)
          /\ IF is_drop_ok
             THEN /\ present' = [present EXCEPT ![p] = FALSE]
                  /\ UNCHANGED <<is_repo_ok, lastOpFailed>>
             ELSE /\ is_repo_ok' = FALSE
                  /\ lastOpFailed' = lastOpFailed \cup {p}
                  /\ UNCHANGED present
          /\ send_todo' = RemainingAfter(send_todo, p, is_drop_ok)
          /\ UNCHANGED guarded
  /\ send_path' = p
  /\ getCalls' = 0
  /\ UNCHANGED <<pc, repo_index, is_ok, result, a_log_last,
                 logQueried, received_since, tracked_paths, mtime,
                 commit_date, listVars, get_ct, is_command_ok, someRepoFailed,
                 proberVars, otherVars>>

\* allocate.rs:222-236: marker clear, content dropped
SendGet(p) ==
  /\ pc = "send"
  /\ send_todo # {} /\ p = NextSendPath
  /\ ~has_file_drop_attr(tags, p)
  /\ p \in tracked_dropped_paths
  /\ LazyProbe
  /\ IF p \in uncommitted_paths
     THEN /\ tags' = set_file_drop_attr(tags, p)
          /\ guarded' = guarded \cup {p}
          /\ UNCHANGED <<pc, get_ct, is_command_ok>>
     ELSE /\ pc' = "get"
          /\ get_ct' = 0
          /\ is_command_ok' = FALSE
          /\ UNCHANGED <<tags, guarded>>
  /\ send_path' = p
  /\ getCalls' = 0
  /\ send_todo' = RemainingAfter(send_todo, p, TRUE)
  /\ UNCHANGED <<repo_index, is_ok, is_repo_ok, result, a_log_last,
                 logQueried, received_since, fsVars,
                 listVars, opPaths, lastOpFailed, someRepoFailed, proberVars, otherVars>>

\* allocate.rs:195-255: marker and content state agree, nothing to do
SendSkip(p) ==
  /\ pc = "send"
  /\ send_todo # {} /\ p = NextSendPath
  /\ has_file_drop_attr(tags, p) <=> p \in tracked_dropped_paths
  /\ send_path' = p
  /\ getCalls' = 0
  /\ send_todo' = RemainingAfter(send_todo, p, TRUE)
  /\ UNCHANGED <<pc, repo_index, is_ok, is_repo_ok, result, a_log_last,
                 logQueried, received_since, fsVars, tags,
                 listVars, has_tested_available_remotes, get_ct, is_command_ok,
                 probeCalls, opPaths, lastOpFailed, guarded, someRepoFailed,
                 config, proberVars, otherVars>>

GetLoopCondOffByOne == get_ct <= GET_MAX_CT /\ ~is_command_ok

GetLoopCondIgnoreSuccess == get_ct < GET_MAX_CT

\* allocate.rs:237: the condition of the while loop
GetLoopCond == get_ct < GET_MAX_CT /\ ~is_command_ok

\* allocate.rs:237-247: one iteration of the while loop, one git annex get
GetAttempt ==
  /\ pc = "get"
  /\ GetLoopCond
  /\ \E is_get_ok \in BOOLEAN :
       /\ is_command_ok' = is_get_ok
       /\ present' = [present EXCEPT ![send_path] = is_get_ok]
       /\ lastOpFailed' = IF is_get_ok THEN lastOpFailed \ {send_path}
                                      ELSE lastOpFailed \cup {send_path}
  /\ get_ct' = get_ct + 1
  /\ getCalls' = getCalls + 1
  /\ opPaths' = opPaths \cup {send_path}
  /\ UNCHANGED <<pc, repo_index, is_ok, is_repo_ok, result, a_log_last,
                 logQueried, received_since,
                 tracked_paths, tags, mtime, commit_date, listVars, send_todo,
                 has_tested_available_remotes, send_path, probeCalls,
                 guarded, someRepoFailed, config, proberVars, otherVars>>

\* allocate.rs:237, 248-253: the while loop ends, its locals go out of scope
GetDone ==
  /\ pc = "get"
  /\ ~GetLoopCond
  /\ IF is_command_ok
     THEN /\ tags' = unset_file_drop_attr(tags, send_path)
          /\ UNCHANGED is_repo_ok
     ELSE /\ is_repo_ok' = FALSE
          /\ UNCHANGED tags
  /\ get_ct' = 0
  /\ is_command_ok' = FALSE
  /\ pc' = "send"
  /\ UNCHANGED <<repo_index, is_ok, result, a_log_last,
                 logQueried, received_since, fsVars, listVars,
                 send_todo, has_tested_available_remotes, send_path, probeCalls,
                 opPaths, lastOpFailed, getCalls, guarded, someRepoFailed,
                 config, proberVars, otherVars>>

\* with the send loop over: a drop of this repository failed, or a fetch
\* failed on its last, hence on every, attempt
RepoOpFailed == lastOpFailed # {}

FoldLastRepo(ok, this_ok) == this_ok

\* allocate.rs:270-272
FoldRepoResult(ok, this_ok) == IF ~this_ok THEN FALSE ELSE ok

\* the locals of the loop body go out of scope and the pass stops looking at
\* the repository
LeaveRepo ==
  /\ is_repo_ok' = TRUE
  /\ tracked_paths' = {}
  /\ tags' = NoTags
  /\ present' = [p \in Paths |-> TRUE]
  /\ mtime' = [p \in Paths |-> 0]
  /\ commit_date' = 0
  /\ tracked_dropped_paths' = {}
  /\ received_paths' = {}
  /\ send_paths' = {}
  /\ uncommitted_paths' = {}
  /\ has_tested_available_remotes' = FALSE
  /\ send_path' = None
  /\ get_ct' = 0
  /\ is_command_ok' = FALSE
  /\ probeCalls' = 0
  /\ opPaths' = {}
  /\ lastOpFailed' = {}
  /\ getCalls' = 0
  /\ guarded' = {}
  /\ logQueried' = FALSE
  /\ config' = FreshConfig

\* allocate.rs:258-273: the repository's status line, the fold into is_ok
EndRepo ==
  /\ pc = "send"
  /\ send_todo = {}
  /\ is_ok' = FoldRepoResult(is_ok, is_repo_ok)
  /\ repo_index' = repo_index + 1
  /\ someRepoFailed' = (someRepoFailed \/ RepoOpFailed)
  /\ pc' = "repo"
  /\ LeaveRepo
  /\ UNCHANGED <<result, a_log_last, received_since, send_todo, proberVars, otherVars>>

OverallMarkerAlwaysOk(is_success) == "ok"

\* allocate.rs:275-282, sync.rs:403-410, maintain.rs:172, 177: the line that
\* ends the log of a command
OverallMarker(is_success) == IF is_success THEN "ok" ELSE "not ok"

\* allocate.rs:275-283
Finish ==
  /\ pc = "repo"
  /\ repo_index = NumRepos
  /\ a_log_last' = OverallMarker(is_ok)
  /\ result' = is_ok
  /\ pc' = "done"
  /\ UNCHANGED <<repo_index, is_ok, is_repo_ok, logQueried, received_since, fsVars, tags, listVars,
                 send_todo, has_tested_available_remotes, getVars, probeCalls,
                 opPaths, lastOpFailed, getCalls, guarded, someRepoFailed,
                 config, proberVars, otherVars>>

Next ==
  \/ EnterRepo
  \/ ListAndBookkeep
  \/ \E p \in Paths : SendDrop(p)
  \/ \E p \in Paths : SendGet(p)
  \/ \E p \in Paths : SendSkip(p)
  \/ GetAttempt
  \/ GetDone
  \/ EndRepo
  \/ Finish

Spec == Init /\ [][Next]_vars

\* ---- the remote prober on its own: one call of test_available_remotes on a
\* repository whose git config holds what earlier probes or the user left ----
DefaultUrl == <<"https://", "host">>

DefaultOutcome == [ok |-> FALSE, ms |-> 50]

DefaultSetup == [url |-> DefaultUrl, outcome |-> DefaultOutcome]

\* what a listed remote can be: a URL, and for the probed transport how the
\* reachability check goes
Setups ==
  { s \in [url : Urls, outcome : ProbeOutcomes] :
      ~starts_with(s.url, GCRYPT_RSYNC_PREFIX) => s.outcome = DefaultOutcome }

PriorConfigs ==
  { NoConfig, [cost |-> 209, ignore |-> "false"], [cost |-> 209, ignore |-> "true"] }

Listed(listing, r) == \E i \in 1..Len(listing) : listing[i] = r

AllocatorAt(position) ==
  /\ pc = position
  /\ repo_index = 0
  /\ is_ok = TRUE
  /\ is_repo_ok = TRUE
  /\ result = FALSE
  /\ received_since = None
  /\ tracked_paths = {}
  /\ tags = NoTags
  /\ present = [p \in Paths |-> TRUE]
  /\ mtime = [p \in Paths |-> 0]
  /\ commit_date = 0
  /\ tracked_dropped_paths = {}
  /\ received_paths = {}
  /\ send_paths = {}
  /\ uncommitted_paths = {}
  /\ send_todo = {}
  /\ has_tested_available_remotes = FALSE
  /\ send_path = None
  /\ get_ct = 0
  /\ is_command_ok = FALSE
  /\ probeCalls = 0
  /\ opPaths = {}
  /\ lastOpFailed = {}
  /\ getCalls = 0
  /\ guarded = {}
  /\ someRepoFailed = FALSE
  /\ logQueried = FALSE
  /\ a_log_last = ""

AllocatorIdle == AllocatorAt("probe")

InitProbe ==
  /\ AllocatorIdle
  /\ config \in [RemoteNames -> PriorConfigs]
  /\ IdleProber
  /\ OthersIdle

\* commands.rs:97-199: one call.  git remote prints some listing, each listed
\* remote has some URL, each probed remote answers or not after some time.
ProbePass ==
  /\ pc = "probe"
  /\ ~probed
  /\ \E listing \in Listings, setup \in [RemoteNames -> Setups] :
       /\ \A r \in RemoteNames : ~Listed(listing, r) => setup[r] = DefaultSetup
       /\ LET u == [r \in RemoteNames |-> setup[r].url]
              pr == [r \in RemoteNames |-> setup[r].outcome]
              ret == test_available_remotes(listing, u, pr, config)
          IN /\ config' = ret.cfg
             /\ available_remotes' = ret.avail
             /\ lsRemoteCalls' = ret.checks
             /\ configWrites' = ret.writes
             /\ url' = u
             /\ probes' = pr
       /\ remotes' = listing
  /\ config0' = config
  /\ probed' = TRUE
  /\ UNCHANGED <<allocVars, otherVars>>

NextProbe == ProbePass

SpecProbe == InitProbe /\ [][NextProbe]_vars

\* ---- commands/sync.rs: make_embedded_git_copies, for one embedded .git
\* directory (master) and its mirror Copies/<name>.git (copy) ----
\* The relative paths are the entries 1..NumEntries: an odd entry lies directly
\* in the directory walked, the even entry after it lies inside it.
Root == 0

Kinds == {"none", "file", "dir"}

Parent(n) == IF n % 2 = 0 THEN n - 1 ELSE Root

\* a directory tree: what exists lies in a directory
Trees ==
  { t \in [Entries -> Kinds] :
      \A n \in Entries : (t[n] # "none" /\ Parent(n) # Root) => t[Parent(n)] = "dir" }

EntrySeq == [i \in 1..NumEntries |-> i]

\* WalkDir::new(..): every entry below the root, a directory before its
\* contents (sync.rs:79, :91)
WalkDir(t) == SelectSeq(EntrySeq, LAMBDA n : t[n] # "none")

RelPaths(t) == {n \in Entries : t[n] # "none"}

HasContents(c, n) == \E m \in Entries : Parent(m) = n /\ c[m] # "none"

\* std::fs on the mirror.  fault: the operation fails for a reason outside the
\* tree (permissions, a full disk); otherwise it fails as the file system
\* defines it.
create_dir_all(c, n, fault) ==
  IF fault \/ c[n] = "file" \/ (Parent(n) # Root /\ c[Parent(n)] = "file")
  THEN [ok |-> FALSE, copy |-> c]
  ELSE [ok |-> TRUE,
        copy |-> [m \in Entries |-> IF m = n \/ m = Parent(n) THEN "dir" ELSE c[m]]]

fs_copy(c, n, fault) ==
  IF fault \/ c[n] = "dir" \/ (Parent(n) # Root /\ c[Parent(n)] # "dir")
  THEN [ok |-> FALSE, copy |-> c]
  ELSE [ok |-> TRUE, copy |-> [c EXCEPT ![n] = "file"]]

remove_dir(c, n, fault) ==
  IF fault \/ c[n] # "dir" \/ HasContents(c, n)
  THEN [ok |-> FALSE, copy |-> c]
  ELSE [ok |-> TRUE, copy |-> [c EXCEPT ![n] = "none"]]

remove_file(c, n, fault) ==
  IF fault \/ c[n] # "file"
  THEN [ok |-> FALSE, copy |-> c]
  ELSE [ok |-> TRUE, copy |-> [c EXCEPT ![n] = "none"]]

\* the outcome r of operation op on entry n, entered into the state of the pass
Performed(st, op, n, r, fault) ==
  [st EXCEPT !.copy = r.copy,
             !.ops = @ \cup {<<op, n>>},
             !.errors = IF r.ok THEN @ ELSE @ \cup {<<op, n>>},
             !.faults = IF fault THEN @ \cup {<<op, n>>} ELSE @,
             !.last_ok = r.ok]

RetainAll(st, n) == st

\* copy_unprocessed_entry_relpaths.retain(|x| x != entry_relpath)
Retain(st, n) ==
  [st EXCEPT !.unprocessed = SelectSeq(@, LAMBDA x : x # n)]

IsNewerOrSame(n, prev_mtime) == prev_mtime = None \/ master_mtime[n] >= prev_mtime

\* sync.rs:166-167: the source file is newer than the watermark, or there is
\* no watermark
IsNewer(n, prev_mtime) == prev_mtime = None \/ master_mtime[n] > prev_mtime

\* sync.rs:99-254: the body of the walk over master for entry n
MasterStep(n, F, prev_mtime, st0) ==
  LET st == [st0 EXCEPT !.walked = @ \cup {n}]
      Mkdir == Performed(st, "mkdir", n, create_dir_all(st.copy, n, n \in F), n \in F)
      Cp == Performed(st, "cp", n, fs_copy(st.copy, n, n \in F), n \in F)
  IN IF master[n] = "dir"
     THEN IF Contains(st.unprocessed, n)
          THEN IF st.copy[n] # "none" THEN Retain(st, n) ELSE Retain(Mkdir, n)
          ELSE Mkdir
     ELSE IF Contains(st.unprocessed, n)
          THEN IF IsNewer(n, prev_mtime)
               THEN Retain(Cp, n)
               ELSE Retain(st, n)
          ELSE Cp

\* sync.rs:91-255
RECURSIVE MasterLoop(_, _, _, _)
MasterLoop(todo, F, prev_mtime, st) ==
  IF todo = <<>>
  THEN st
  ELSE MasterLoop(Tail(todo), F, prev_mtime, MasterStep(Head(todo), F, prev_mtime, st))

\* sync.rs:258-291: the body of the deletion loop for entry n
DeleteStep(n, F, st0) ==
  LET st == [st0 EXCEPT !.attempted = @ \cup {n}]
  IN IF st.copy[n] = "dir"
     THEN Performed(st, "rmdir", n, remove_dir(st.copy, n, n \in F), n \in F)
     ELSE Performed(st, "rm", n, remove_file(st.copy, n, n \in F), n \in F)

DeleteRemainingBreak(todo, is_removed) == IF is_removed THEN Tail(todo) ELSE <<>>

\* sync.rs:257, 271-277, 283-289: an Err is logged and the for loop goes on
DeleteRemaining(todo, is_removed) == Tail(todo)

\* sync.rs:257-292
RECURSIVE DeleteLoop(_, _, _)
DeleteLoop(todo, F, st) ==
  IF todo = <<>>
  THEN st
  ELSE LET st1 == DeleteStep(Head(todo), F, st)
       IN DeleteLoop(DeleteRemaining(todo, st1.last_ok), F, st1)

\* sync.rs:78-293: the pass over a mirror root that exists
MirrorPass(c, F, prev_mtime) ==
  LET start == [copy |-> c, unprocessed |-> WalkDir(c), ops |-> {}, errors |-> {},
                faults |-> {}, walked |-> {}, attempted |-> {}, last_ok |-> TRUE]
      walked == MasterLoop(WalkDir(master), F, prev_mtime, start)
      deleted == DeleteLoop(walked.unprocessed, F, walked)
  IN [copy |-> deleted.copy,
      last |-> [prev_mtime |-> prev_mtime, before |-> RelPaths(c), ops |-> deleted.ops,
                errors |-> deleted.errors, faults |-> deleted.faults,
                walked |-> deleted.walked, unprocessed |-> walked.unprocessed,
                attempted |-> deleted.attempted, stamped |-> TRUE,
                root_error |-> FALSE]]

\* FileTime::now() of pass number k: no earlier than any modification time of
\* the source, later than the stamp of the pass before
NowOfPass(k) == k

MasterTimes == {0, 1}

InitSync ==
  /\ AllocatorAt("sync")
  /\ config = FreshConfig
  /\ IdleProber
  /\ master \in Trees
  /\ master_mtime \in [Entries -> MasterTimes]
  /\ \A n \in Entries : master[n] # "file" => master_mtime[n] = 0
  /\ copy \in Trees
  /\ copy_mtime \in {None, 0}
  /\ copy_mtime = None => copy = [n \in Entries |-> "none"]
  /\ s_pass = 0
  /\ s_last = NoPass
  /\ s_prevFaultFree = FALSE
  /\ MaintIdle
  /\ RunnerIdle
  /\ SyncCmdIdle
  /\ ExtraIdle

\* sync.rs:48-76: the mirror root is there, with its modification time as the
\* watermark, or is created now, with no watermark; when it cannot be created
\* the error is logged and this mirror is left
MakeCopies ==
  /\ pc = "sync"
  /\ s_pass < MaxPasses
  /\ \E F \in SUBSET Entries, root_fault \in BOOLEAN :
       /\ copy_mtime # None => ~root_fault
       /\ IF copy_mtime = None /\ root_fault
          THEN /\ s_last' = [NoPass EXCEPT !.errors = {<<"mkdir", Root>>},
                                           !.faults = {<<"mkdir", Root>>},
                                           !.ops = {<<"mkdir", Root>>},
                                           !.root_error = TRUE]
               /\ UNCHANGED <<copy, copy_mtime>>
          ELSE LET made == copy_mtime = None
                   ret == MirrorPass(copy, F, copy_mtime)
               IN /\ copy' = ret.copy
                  /\ s_last' = IF made
                               THEN [ret.last EXCEPT !.ops = @ \cup {<<"mkdir", Root>>}]
                               ELSE ret.last
                  /\ copy_mtime' = NowOfPass(s_pass + 1)
  /\ s_prevFaultFree' = (s_pass > 0 /\ s_last.faults = {})
  /\ s_pass' = s_pass + 1
  /\ UNCHANGED <<allocVars, proberVars, config, master, master_mtime, maintVars, runVars,
                 syncCmdVars, extraVars>>

NextSync == MakeCopies

SpecSync == InitSync /\ [][NextSync]_vars

\* ---- commands/sync.rs: sync, over every repository ----
\* The repositories sync() meets have remote 1 on the encrypted rsync
\* transport and every other remote on https.
SyncCmdUrls ==
  [r \in RemoteNames |-> IF r = 1 THEN <<"gcrypt::", "rsync://", "host">>
                                  ELSE <<"https://", "host">>]

SyncCmdListings == { <<>>, <<1>>, <<1, 2>> }

\* the embedded .git directory of a repository and its mirror, as sync() finds
\* them: the mirror absent, or there since an earlier pass with a stale file
SyncCmdMirrors ==
  { [master |-> [n \in Entries |-> IF n = 1 THEN "dir" ELSE IF n = 2 THEN "file" ELSE "none"],
     master_mtime |-> [n \in Entries |-> 0],
     copy |-> [n \in Entries |-> "none"],
     copy_mtime |-> None],
    [master |-> [n \in Entries |-> IF n = 1 THEN "file" ELSE "none"],
     master_mtime |-> [n \in Entries |-> IF n = 1 THEN 1 ELSE 0],
     copy |-> [n \in Entries |-> IF n \in {1, 3} THEN "file" ELSE "none"],
     copy_mtime |-> 0] }

syncCmdFrame == <<allocVars, maintVars, runVars, extraVars, remotes, url, config0, probes,
                  lsRemoteCalls, configWrites, probed, s_pass, s_last, s_prevFaultFree>>

InitSyncCmd ==
  /\ AllocatorAt("sync-command")
  /\ config = FreshConfig
  /\ IdleProber
  /\ SyncIdle
  /\ MaintIdle
  /\ RunnerIdle
  /\ ExtraIdle
  /\ y_pc = "probe"
  /\ includes_all \in BOOLEAN
  /\ y_repo_index = 0
  /\ repo_ok = <<>>
  /\ unchanged_paths = {}
  /\ assume_unchanged = {}
  /\ y_usable = <<>>
  /\ y_assisted = <<>>
  /\ y_log_last = ""
  /\ y_commands = <<>>

\* sync.rs:314-317: the loop reaches the next repository, whose embedded .git
\* directory and mirror are in some state, and probes its remotes
SyncCmdProbe ==
  /\ y_pc = "probe"
  /\ y_repo_index < NumRepos
  /\ \E listing \in SyncCmdListings, pr \in AllocProbeOutcomes :
       LET ret == test_available_remotes(listing, SyncCmdUrls, pr, FreshConfig)
       IN /\ available_remotes' = ret.avail
          /\ config' = ret.cfg
  /\ \E mirror \in SyncCmdMirrors :
       /\ master' = mirror.master
       /\ master_mtime' = mirror.master_mtime
       /\ copy' = mirror.copy
       /\ copy_mtime' = mirror.copy_mtime
  /\ assume_unchanged' = {}
  /\ y_commands' = <<>>
  /\ y_pc' = "copies"
  /\ UNCHANGED <<includes_all, y_repo_index, repo_ok, unchanged_paths, y_usable,
                 y_assisted, y_log_last, syncCmdFrame>>

\* sync.rs:318: make_embedded_git_copies on the repository's embedded .git
\* directory
SyncCmdCopies ==
  /\ y_pc = "copies"
  /\ \E F \in {{}, {1}}, root_fault \in BOOLEAN :
       /\ copy_mtime # None => ~root_fault
       /\ IF copy_mtime = None /\ root_fault
          THEN UNCHANGED <<copy, copy_mtime>>
          ELSE /\ copy' = MirrorPass(copy, F, copy_mtime).copy
               /\ copy_mtime' = NowOfPass(1)
  /\ y_pc' = "assume"
  /\ UNCHANGED <<includes_all, y_repo_index, repo_ok, unchanged_paths, assume_unchanged,
                 y_usable, y_assisted, y_log_last, y_commands, available_remotes, config,
                 master, master_mtime, syncCmdFrame>>

\* sync.rs:335: the flags are set unless --all was given
AfterAssume(cmds, all) ==
  IF ~all THEN Append(cmds, "git-update-index-assume-unchanged") ELSE cmds

\* sync.rs:320-351: git ls-files names the paths carrying the attribute; unless
\* --all was given, git update-index --assume-unchanged runs on them, its
\* result not looked at
SyncCmdAssume ==
  /\ y_pc = "assume"
  /\ \E listed \in SUBSET Paths, is_index_ok \in BOOLEAN :
       /\ unchanged_paths' = listed
       /\ includes_all => is_index_ok
       /\ assume_unchanged' =
            IF ~includes_all /\ is_index_ok THEN assume_unchanged \cup listed
                                             ELSE assume_unchanged
  /\ y_commands' = AfterAssume(y_commands, includes_all)
  /\ y_pc' = "assist"
  /\ UNCHANGED <<includes_all, y_repo_index, repo_ok, y_usable, y_assisted, y_log_last,
                 available_remotes, config, master, master_mtime, copy, copy_mtime,
                 syncCmdFrame>>

AssistOutcomesAlwaysInvoked(avail) == { [invoked |-> TRUE, ok |-> b] : b \in BOOLEAN }

\* sync.rs:353-381: without an available remote "not ok" is logged and false
\* pushed; otherwise git annex assist runs and its result is pushed
AssistOutcomes(avail) ==
  IF avail = <<>>
  THEN { [invoked |-> FALSE, ok |-> FALSE] }
  ELSE { [invoked |-> TRUE, ok |-> b] : b \in BOOLEAN }

\* sync.rs:353-381
SyncCmdAssist ==
  /\ y_pc = "assist"
  /\ \E out \in AssistOutcomes(available_remotes) :
       /\ repo_ok' = Append(repo_ok, out.ok)
       /\ y_assisted' = Append(y_assisted, out.invoked)
       /\ y_commands' = IF out.invoked THEN Append(y_commands, "git-annex-assist")
                                       ELSE y_commands
  /\ y_usable' = Append(y_usable, available_remotes # <<>>)
  /\ y_pc' = "reset"
  /\ UNCHANGED <<includes_all, y_repo_index, unchanged_paths, assume_unchanged, y_log_last,
                 available_remotes, config, master, master_mtime, copy, copy_mtime,
                 syncCmdFrame>>

AfterResetIfAssisted(cmds, is_assisted) ==
  IF is_assisted THEN Append(cmds, "git-update-index-no-assume-unchanged") ELSE cmds

\* sync.rs:383-401: the command follows the push onto repo_ok unconditionally
AfterReset(cmds, is_assisted) == Append(cmds, "git-update-index-no-assume-unchanged")

\* sync.rs:383-401: git update-index --no-assume-unchanged on the same paths,
\* its result not looked at; the loop body ends
SyncCmdReset ==
  /\ y_pc = "reset"
  /\ \E is_index_ok \in BOOLEAN :
       assume_unchanged' =
         IF is_index_ok THEN assume_unchanged \ unchanged_paths ELSE assume_unchanged
  /\ unchanged_paths' = {}
  /\ y_commands' = AfterReset(y_commands, y_assisted[Len(y_assisted)])
  /\ y_repo_index' = y_repo_index + 1
  /\ available_remotes' = <<>>
  /\ config' = FreshConfig
  /\ master' = [n \in Entries |-> "none"]
  /\ master_mtime' = [n \in Entries |-> 0]
  /\ copy' = [n \in Entries |-> "none"]
  /\ copy_mtime' = None
  /\ y_pc' = "probe"
  /\ UNCHANGED <<includes_all, repo_ok, y_usable, y_assisted, y_log_last, syncCmdFrame>>

\* sync.rs:403-411
SyncCmdFinish ==
  /\ y_pc = "probe"
  /\ y_repo_index = NumRepos
  /\ y_log_last' = OverallMarker(~Contains(repo_ok, FALSE))
  /\ y_pc' = "returned"
  /\ UNCHANGED <<includes_all, y_repo_index, repo_ok, unchanged_paths, assume_unchanged,
                 y_usable, y_assisted, y_commands, available_remotes, config, master, master_mtime,
                 copy, copy_mtime, syncCmdFrame>>

NextSyncCmd ==
  \/ SyncCmdProbe
  \/ SyncCmdCopies
  \/ SyncCmdAssume
  \/ SyncCmdAssist
  \/ SyncCmdReset
  \/ SyncCmdFinish

SpecSyncCmd == InitSyncCmd /\ [][NextSyncCmd]_vars

\* ---- commands/maintain.rs: maintain, under tokio::time::timeout ----
Step(kind, remote) == [kind |-> kind, remote |-> remote]

\* the commands run through command_output_logfile (maintain.rs:59-82, 89-169)
LoggedCommands ==
  { "git-fsck", "git-annex-unused", "git-annex-restage", "git-annex-satisfy",
    "git-annex-fsck", "git-annex-dropunused" }

\* Command::kill_on_drop(true) is set by command_output_logfile (commands.rs:41)
\* and on git remote (commands.rs:114); the other commands keep tokio's
\* default, under which dropping the future leaves the child running
KillOnDrop(kind) == kind \in LoggedCommands \cup {"git-remote"}

\* maintain.rs:15-36: one git rm -r --cached per embedded .git directory
RECURSIVE UntrackSteps(_)
UntrackSteps(embedded) ==
  IF embedded = 0
  THEN <<>>
  ELSE <<Step("git-rm-cached", Here)>> \o UntrackSteps(embedded - 1)

\* maintain.rs:57-82
PrepSteps(embedded) ==
  UntrackSteps(embedded) \o
  <<Step("git-fsck", Here), Step("git-annex-unused", Here), Step("git-annex-restage", Here)>>

\* commands.rs:125-190: the processes the loop body spawns for one remote
ProbeRemoteSteps(remote, u, pr) ==
  <<Step("git-remote-get-url", remote)>> \o
  ( IF starts_with(u[remote], GCRYPT_RSYNC_PREFIX)
    THEN <<Step("git-ls-remote", remote)>> \o
         ( IF pr[remote].ok
           THEN <<Step("git-config-annex-cost", remote), Step("git-config-annex-ignore", remote)>>
           ELSE <<Step("git-config-annex-ignore", remote)>> )
    ELSE <<>> )

\* commands.rs:109-191
RECURSIVE ProbeSteps(_, _, _, _)
ProbeSteps(i, listing, u, pr) ==
  IF i > Len(listing)
  THEN <<>>
  ELSE ProbeRemoteSteps(listing[i], u, pr) \o ProbeSteps(i + 1, listing, u, pr)

\* maintain.rs:87-108
CheckSteps(listing, u, pr) ==
  <<Step("git-remote", Here)>> \o ProbeSteps(1, listing, u, pr) \o
  <<Step("git-annex-satisfy", Here)>>

\* maintain.rs:117-169
FsckSteps(remote) == <<Step("git-annex-fsck", remote), Step("git-annex-dropunused", remote)>>

\* the remotes a maintained repository has: any listing, any URL, a
\* reachability check that succeeds or fails
MaintSetups == { s \in Setups : s.outcome.ms = 50 }

InitMaintain ==
  /\ AllocatorAt("maintain")
  /\ config = FreshConfig
  /\ IdleProber
  /\ SyncIdle
  /\ RunnerIdle
  /\ SyncCmdIdle
  /\ ExtraIdle
  /\ m_pc = "prep"
  /\ m_repo_index = 0
  /\ m_todo = <<>>
  /\ m_running = NoStep
  /\ m_fsck_remotes = {}
  /\ m_result = FALSE
  /\ m_log = <<>>
  /\ m_log_sync = <<>>
  /\ m_killed = NoStep
  /\ m_orphan = NoStep
  /\ m_cmd_failed = FALSE
  /\ m_unreachable = FALSE

MaintRunningAlways == TRUE

\* maintain.rs:52-54, 174-176: the pass is polled while the timeout future has
\* not resolved to Err(Elapsed)
MaintRunning == m_pc \notin {"expired", "returned"}

maintFrame == <<allocVars, syncVars, runVars, syncCmdVars, extraVars, config0, lsRemoteCalls,
                configWrites, probed>>

\* maintain.rs:55-57: the first loop reaches a repository
MaintEnterPrep ==
  /\ m_pc = "prep"
  /\ m_repo_index < NumRepos
  /\ \E embedded \in 0..MaxEmbedded : m_todo' = PrepSteps(embedded)
  /\ m_pc' = "prep-run"
  /\ UNCHANGED <<m_cmd_failed, m_unreachable, m_repo_index, m_running, m_fsck_remotes, m_result, m_log, m_log_sync,
                 m_killed, m_orphan, config, remotes, url, probes, available_remotes,
                 maintFrame>>

\* maintain.rs:83: end of the body of the first loop
MaintPrepDone ==
  /\ m_pc = "prep-run"
  /\ m_todo = <<>> /\ m_running = NoStep
  /\ m_repo_index' = m_repo_index + 1
  /\ m_pc' = "prep"
  /\ UNCHANGED <<m_cmd_failed, m_unreachable, m_todo, m_running, m_fsck_remotes, m_result, m_log, m_log_sync,
                 m_killed, m_orphan, config, remotes, url, probes, available_remotes,
                 maintFrame>>

\* maintain.rs:83-85: the first loop is over, the second begins
MaintToCheck ==
  /\ m_pc = "prep"
  /\ m_repo_index = NumRepos
  /\ m_repo_index' = 0
  /\ m_pc' = "check"
  /\ UNCHANGED <<m_cmd_failed, m_unreachable, m_todo, m_running, m_fsck_remotes, m_result, m_log, m_log_sync,
                 m_killed, m_orphan, config, remotes, url, probes, available_remotes,
                 maintFrame>>

\* maintain.rs:85-87: the second loop reaches a repository, which has some
\* remotes; test_available_remotes starts with an empty list
MaintEnterCheck ==
  /\ m_pc = "check"
  /\ m_repo_index < NumRepos
  /\ \E listing \in Listings, setup \in [RemoteNames -> MaintSetups] :
       /\ \A r \in RemoteNames : ~Listed(listing, r) => setup[r] = DefaultSetup
       /\ remotes' = listing
       /\ url' = [r \in RemoteNames |-> setup[r].url]
       /\ probes' = [r \in RemoteNames |-> setup[r].outcome]
       /\ m_todo' = CheckSteps(listing, [r \in RemoteNames |-> setup[r].url],
                               [r \in RemoteNames |-> setup[r].outcome])
  /\ available_remotes' = <<>>
  /\ config' = FreshConfig
  /\ m_pc' = "check-probe"
  /\ UNCHANGED <<m_cmd_failed, m_unreachable, m_repo_index, m_running, m_fsck_remotes, m_result, m_log, m_log_sync,
                 m_killed, m_orphan, maintFrame>>

\* maintain.rs:110-115: available_remotes and None, shuffled
MaintShuffle ==
  /\ m_pc = "check-probe"
  /\ m_todo = <<>> /\ m_running = NoStep
  /\ m_fsck_remotes' = {available_remotes[i] : i \in 1..Len(available_remotes)} \cup {Here}
  /\ m_unreachable' = (m_unreachable \/ (remotes # <<>> /\ available_remotes = <<>>))
  /\ m_pc' = "check-fsck"
  /\ UNCHANGED <<m_cmd_failed, m_repo_index, m_todo, m_running, m_result, m_log, m_log_sync,
                 m_killed, m_orphan, config, remotes, url, probes, available_remotes,
                 maintFrame>>

\* maintain.rs:117: the next entry of the shuffled list, whichever it is
MaintNextRemote ==
  /\ m_pc = "check-fsck"
  /\ m_todo = <<>> /\ m_running = NoStep
  /\ \E remote \in m_fsck_remotes :
       /\ m_todo' = FsckSteps(remote)
       /\ m_fsck_remotes' = m_fsck_remotes \ {remote}
  /\ UNCHANGED <<m_cmd_failed, m_unreachable, m_pc, m_repo_index, m_running, m_result, m_log, m_log_sync,
                 m_killed, m_orphan, config, remotes, url, probes, available_remotes,
                 maintFrame>>

\* maintain.rs:170-171: end of the body of the second loop; its locals go out
\* of scope and the pass stops looking at the repository
MaintCheckDone ==
  /\ m_pc = "check-fsck"
  /\ m_todo = <<>> /\ m_running = NoStep /\ m_fsck_remotes = {}
  /\ m_repo_index' = m_repo_index + 1
  /\ m_pc' = "check"
  /\ remotes' = <<>>
  /\ url' = [r \in RemoteNames |-> DefaultUrl]
  /\ probes' = [r \in RemoteNames |-> DefaultOutcome]
  /\ available_remotes' = <<>>
  /\ config' = FreshConfig
  /\ UNCHANGED <<m_cmd_failed, m_unreachable, m_todo, m_running, m_fsck_remotes, m_result, m_log, m_log_sync,
                 m_killed, m_orphan, maintFrame>>

\* Command::output().await / command_output_logfile: the next process is spawned
MaintSpawn ==
  /\ MaintRunning
  /\ m_todo # <<>> /\ m_running = NoStep
  /\ m_running' = Head(m_todo)
  /\ m_todo' = Tail(m_todo)
  /\ UNCHANGED <<m_cmd_failed, m_unreachable, m_pc, m_repo_index, m_fsck_remotes, m_result, m_log, m_log_sync,
                 m_killed, m_orphan, config, remotes, url, probes, available_remotes,
                 maintFrame>>

\* what the exit of the awaited process lets the pass do: commands.rs:149-172,
\* 174-185, 188-189
ConfigAfter(step, cfg) ==
  IF step.kind = "git-config-annex-cost"
  THEN [cfg EXCEPT ![step.remote].cost = ProbeCost(probes[step.remote].ms)]
  ELSE IF step.kind = "git-config-annex-ignore"
  THEN [cfg EXCEPT ![step.remote].ignore =
                     IF probes[step.remote].ok THEN "false" ELSE "true"]
  ELSE cfg

AvailableAfter(step, avail) ==
  IF \/ /\ step.kind = "git-remote-get-url"
        /\ ~starts_with(url[step.remote], GCRYPT_RSYNC_PREFIX)
     \/ /\ step.kind = "git-config-annex-ignore"
        /\ probes[step.remote].ok
  THEN Append(avail, step.remote)
  ELSE avail

\* the awaited process exits with some status; maintain() looks at none
MaintExit ==
  /\ MaintRunning
  /\ m_running # NoStep
  /\ \E is_exit_ok \in BOOLEAN :
       /\ m_running.kind \notin LoggedCommands => is_exit_ok
       /\ m_cmd_failed' = (m_cmd_failed \/ ~is_exit_ok)
  /\ config' = ConfigAfter(m_running, config)
  /\ available_remotes' = AvailableAfter(m_running, available_remotes)
  /\ m_running' = NoStep
  /\ UNCHANGED <<m_unreachable, m_pc, m_repo_index, m_todo, m_fsck_remotes, m_result, m_log, m_log_sync,
                 m_killed, m_orphan, remotes, url, probes, maintFrame>>

MaintResultStrict(is_cmd_failed) == ~is_cmd_failed

\* maintain.rs:172, 180: "ok" and Ok(true), whatever the commands returned
MaintResult(is_cmd_failed) == TRUE

\* maintain.rs:171-172, 180: both loops are over
MaintFinish ==
  /\ m_pc = "check"
  /\ m_repo_index = NumRepos
  /\ m_log' = Append(m_log, OverallMarker(MaintResult(m_cmd_failed)))
  /\ m_result' = MaintResult(m_cmd_failed)
  /\ m_pc' = "returned"
  /\ UNCHANGED <<m_cmd_failed, m_unreachable, m_repo_index, m_todo, m_running, m_fsck_remotes, m_log_sync,
                 m_killed, m_orphan, config, remotes, url, probes, available_remotes,
                 maintFrame>>

\* maintain.rs:52-53, 176-178: the timeout elapses while the pass is pending;
\* the future is dropped, and with it the Child it awaits
MaintTimeout ==
  /\ m_pc \notin {"idle", "expired", "returned"}
  /\ m_pc' = "expired"
  /\ m_running' = NoStep
  /\ m_killed' = IF KillOnDrop(m_running.kind) THEN m_running ELSE NoStep
  /\ m_orphan' = IF m_running # NoStep /\ ~KillOnDrop(m_running.kind)
                 THEN m_running ELSE NoStep
  /\ m_log' = Append(m_log, OverallMarker(FALSE))
  /\ m_log_sync' = Append(m_log_sync, OverallMarker(FALSE))
  /\ m_result' = FALSE
  /\ UNCHANGED <<m_cmd_failed, m_unreachable, m_repo_index, m_todo, m_fsck_remotes, config, remotes, url,
                 probes, available_remotes, maintFrame>>

NextMaintain ==
  \/ MaintEnterPrep
  \/ MaintPrepDone
  \/ MaintToCheck
  \/ MaintEnterCheck
  \/ MaintShuffle
  \/ MaintNextRemote
  \/ MaintCheckDone
  \/ MaintSpawn
  \/ MaintExit
  \/ MaintFinish
  \/ MaintTimeout

SpecMaintain == InitMaintain /\ [][NextMaintain]_vars

\* ---- commands.rs: command_output_logfile ----
\* entries of the log sink: the status prefix, an output line (numbered in the
\* order the child wrote it), a terminal marker "<prefix> ok" / "<prefix> not ok"
LogPrefix == [type |-> "prefix", n |-> 0]

LogLine(n) == [type |-> "line", n |-> n]

LogMarker(is_success) == [type |-> IF is_success THEN "ok" ELSE "not ok", n |-> 0]

InitRunner ==
  /\ AllocatorAt("run")
  /\ config = FreshConfig
  /\ IdleProber
  /\ SyncIdle
  /\ MaintIdle
  /\ SyncCmdIdle
  /\ ExtraIdle
  /\ r_pc = "start"
  /\ r_proc = "none"
  /\ r_exit_ok = FALSE
  /\ r_out = <<>>
  /\ r_err = <<>>
  /\ r_written = 0
  /\ r_log = <<>>
  /\ r_success = FALSE

runFrame == <<allocVars, proberVars, config, syncVars, maintVars, syncCmdVars,
              extraVars>>

\* commands.rs:38-53: the prefix is logged, the child is spawned with both
\* streams piped; a failed spawn panics
RunnerStart ==
  /\ r_pc = "start"
  /\ r_log' = Append(r_log, LogPrefix)
  /\ \E is_spawned \in BOOLEAN :
       IF is_spawned
       THEN r_proc' = "running" /\ r_pc' = "loop"
       ELSE r_proc' = "none" /\ r_pc' = "panicked"
  /\ UNCHANGED <<r_exit_ok, r_out, r_err, r_written, r_success, runFrame>>

\* the child writes a line to one of its streams; a line that is not UTF-8
\* makes next_line() return Err
ProcWrite ==
  /\ r_pc = "loop"
  /\ r_proc = "running"
  /\ r_written < MaxLines
  /\ r_written' = r_written + 1
  /\ \E is_utf8 \in BOOLEAN, to_stdout \in BOOLEAN :
       LET line == [n |-> r_written + 1, utf8 |-> is_utf8]
       IN IF to_stdout
          THEN r_out' = Append(r_out, line) /\ UNCHANGED r_err
          ELSE r_err' = Append(r_err, line) /\ UNCHANGED r_out
  /\ UNCHANGED <<r_pc, r_proc, r_exit_ok, r_log, r_success, runFrame>>

\* the child exits, with some status
ProcExit ==
  /\ r_pc = "loop"
  /\ r_proc = "running"
  /\ r_proc' = "exited"
  /\ r_exit_ok' \in BOOLEAN
  /\ UNCHANGED <<r_pc, r_out, r_err, r_written, r_log, r_success, runFrame>>

\* commands.rs:62, 71, 94: a read error leaves the loop; the function returns
\* and the Child is dropped, which kills a running child (kill_on_drop)
ReadError ==
  /\ r_pc' = "returned"
  /\ r_proc' = IF r_proc = "running" THEN "killed" ELSE r_proc
  /\ UNCHANGED <<r_log, r_success>>

\* commands.rs:57-65: select! takes the stdout branch, a line is there
SelectStdout ==
  /\ r_pc = "loop"
  /\ r_out # <<>>
  /\ IF Head(r_out).utf8
     THEN /\ r_log' = Append(r_log, LogLine(Head(r_out).n))
          /\ r_out' = Tail(r_out)
          /\ UNCHANGED <<r_pc, r_proc, r_success>>
     ELSE ReadError /\ UNCHANGED r_out
  /\ UNCHANGED <<r_exit_ok, r_err, r_written, runFrame>>

\* commands.rs:66-74: select! takes the stderr branch, a line is there
SelectStderr ==
  /\ r_pc = "loop"
  /\ r_err # <<>>
  /\ IF Head(r_err).utf8
     THEN /\ r_log' = Append(r_log, LogLine(Head(r_err).n))
          /\ r_err' = Tail(r_err)
          /\ UNCHANGED <<r_pc, r_proc, r_success>>
     ELSE ReadError /\ UNCHANGED r_err
  /\ UNCHANGED <<r_exit_ok, r_out, r_written, runFrame>>

\* commands.rs:75: child.wait() is ready once the child has exited, whatever
\* the pipes still hold
WaitReady == r_proc = "exited"

\* commands.rs:75-91, 94: select! takes the wait branch: the marker is logged,
\* the loop is left, the function returns
SelectWait ==
  /\ r_pc = "loop"
  /\ WaitReady
  /\ r_log' = Append(r_log, LogMarker(r_exit_ok))
  /\ r_success' = r_exit_ok
  /\ r_pc' = "returned"
  /\ UNCHANGED <<r_proc, r_exit_ok, r_out, r_err, r_written, runFrame>>

NextRunner ==
  \/ RunnerStart
  \/ ProcWrite
  \/ ProcExit
  \/ SelectStdout
  \/ SelectStderr
  \/ SelectWait

SpecRunner == InitRunner /\ [][NextRunner]_vars

\* ---- platform/macos.rs: the marker setters on a file that carries other
\* tags as well ----
OtherTags == {"Red", "Blue"}

AllTags == OtherTags \cup {TAG_XATTR_DROP_ITEM_VALUE}

\* the tag lists a file can carry: no tag twice
TagLists ==
  { l \in UNION { [1..n -> AllTags] : n \in 0..MaxTags } :
      \A i, j \in DOMAIN l : i # j => l[i] # l[j] }

tagFrame == <<allocVars, proberVars, config, syncVars, maintVars, runVars, syncCmdVars,
              daemonVars>>

InitTags ==
  /\ AllocatorAt("tags")
  /\ config = FreshConfig
  /\ IdleProber
  /\ SyncIdle
  /\ MaintIdle
  /\ RunnerIdle
  /\ SyncCmdIdle
  /\ DaemonIdle
  /\ x_tags \in [Paths -> TagLists]
  /\ x_call = NoCall

\* macos.rs:31, 33: set_file_xattr_tags is called when the marker is absent
SetWrites(t, p) == ~Contains(get_file_tags(t, p), TAG_XATTR_DROP_ITEM_VALUE)

\* macos.rs:51-52: set_file_xattr_tags is called when the marker is there
UnsetWrites(t, p) == Contains(get_file_tags(t, p), TAG_XATTR_DROP_ITEM_VALUE)

\* macos.rs:29-47; xattr::set can fail, which is logged
SetDropAttr(p) ==
  /\ \E is_set_ok \in BOOLEAN :
       /\ ~SetWrites(x_tags, p) => is_set_ok
       /\ x_tags' = IF is_set_ok THEN set_file_drop_attr(x_tags, p) ELSE x_tags
  /\ x_call' = [op |-> "set", path |-> p, before |-> x_tags[p],
                wrote |-> SetWrites(x_tags, p)]
  /\ UNCHANGED tagFrame

\* macos.rs:49-72
UnsetDropAttr(p) ==
  /\ \E is_set_ok \in BOOLEAN :
       /\ ~UnsetWrites(x_tags, p) => is_set_ok
       /\ x_tags' = IF is_set_ok THEN unset_file_drop_attr(x_tags, p) ELSE x_tags
  /\ x_call' = [op |-> "unset", path |-> p, before |-> x_tags[p],
                wrote |-> UnsetWrites(x_tags, p)]
  /\ UNCHANGED tagFrame

NextTags ==
  \/ \E p \in Paths : SetDropAttr(p)
  \/ \E p \in Paths : UnsetDropAttr(p)

SpecTags == InitTags /\ [][NextTags]_vars

\* ---- daemon.rs: the three workers, their channels, the event loop and the
\* menu.  A run of sync, maintain or allocate is one step that starts it and
\* one that ends it with a result; menu texts and log files are left out.  A
\* spawned task builds its message, reading the clock, as soon as it is
\* spawned, and tasks that await send on one channel get through in any
\* order ----
daemonFrame == <<allocVars, proberVars, config, syncVars, maintVars, runVars, syncCmdVars,
                 tagVars>>

\* daemon.rs:512, 535, 590, 645: repo_paths.clone()
AllRepoPaths == [i \in 1..NumRepos |-> i]

\* daemon.rs:511-527: the allocation request sent at start-up
InitDaemon ==
  /\ AllocatorAt("daemon")
  /\ config = FreshConfig
  /\ IdleProber
  /\ SyncIdle
  /\ MaintIdle
  /\ RunnerIdle
  /\ SyncCmdIdle
  /\ TagsIdle
  /\ DaemonConstructed
  /\ d_senders = [w \in Workers |->
                    IF w = "allocate"
                    THEN SetToBag({[message_type |-> "StartByManual", command_dt |-> 0,
                                    repo_paths |-> AllRepoPaths, in_run |-> FALSE]})
                    ELSE EmptyBag]

\* Local::now() moves on
Tick ==
  /\ d_now < MaxClock
  /\ d_now' = d_now + 1
  /\ UNCHANGED <<d_count, d_senders, d_rx, d_running, is_schedule_enabled,
                 prev_ended_dt, prev_command_dt, d_events, tray_icon, item_enabled,
                 menu_is_enabled, d_skipped, d_alloc, d_handled>>
  /\ UNCHANGED daemonFrame

\* tokio::spawn(async move { tx.send(CommandMessage { .. }).await }), as in
\* daemon.rs:1017-1034
Spawned(w, message_type, repo_paths) ==
  d_senders' = [d_senders EXCEPT ![w] =
                  @ (+) SetToBag({[message_type |-> message_type, command_dt |-> d_now,
                                   repo_paths |-> repo_paths,
                                   in_run |-> d_running[w] # NoMessage]})]

\* daemon.rs:1020-1023
ToggleMessage(is_enabled) == IF is_enabled THEN "ScheduleEnable" ELSE "ScheduleDisable"

\* daemon.rs:1004-1034 (sync), 1035-1065 (maintain)
ToggleClick(w) ==
  /\ d_count < MaxRequests
  /\ d_count' = d_count + 1
  /\ menu_is_enabled' = [menu_is_enabled EXCEPT ![w] = ~@]
  /\ Spawned(w, ToggleMessage(menu_is_enabled'[w]), <<>>)
  /\ UNCHANGED <<d_now, d_rx, d_running, is_schedule_enabled, prev_ended_dt,
                 prev_command_dt, d_events, tray_icon, item_enabled, d_skipped, d_alloc,
                 d_handled>>
  /\ UNCHANGED daemonFrame

\* a click on an enabled item that starts a command
MenuStart(w, repo_paths) ==
  /\ d_count < MaxRequests
  /\ item_enabled[w]
  /\ d_count' = d_count + 1
  /\ Spawned(w, "StartByManual", repo_paths)
  /\ UNCHANGED <<d_now, d_rx, d_running, is_schedule_enabled, prev_ended_dt,
                 prev_command_dt, d_events, tray_icon, item_enabled, menu_is_enabled,
                 d_skipped, d_alloc, d_handled>>
  /\ UNCHANGED daemonFrame

\* daemon.rs:1066-1084
SyncAllClick == MenuStart("sync", AllRepoPaths)

\* daemon.rs:1124-1147
SyncEachClick(each_index) == MenuStart("sync", <<AllRepoPaths[each_index]>>)

\* daemon.rs:1085-1103
MaintainAllClick == MenuStart("maintain", AllRepoPaths)

\* daemon.rs:1104-1122
AllocateClick == MenuStart("allocate", AllRepoPaths)

\* daemon.rs:538-585 (sync), 593-629 (maintain): the cron job fires
ScheduleTrigger(w) ==
  /\ d_count < MaxRequests
  /\ d_count' = d_count + 1
  /\ Spawned(w, "StartBySchedule", AllRepoPaths)
  /\ UNCHANGED <<d_now, d_rx, d_running, is_schedule_enabled, prev_ended_dt,
                 prev_command_dt, d_events, tray_icon, item_enabled, menu_is_enabled,
                 d_skipped, d_alloc, d_handled>>
  /\ UNCHANGED daemonFrame

\* daemon.rs:333-342: mpsc::channel(1); a send returns once the channel has room
Deliver(w) ==
  /\ Len(d_rx[w]) < 1
  /\ \E m \in BagToSet(d_senders[w]) :
       /\ d_rx' = [d_rx EXCEPT ![w] = Append(@, m)]
       /\ d_senders' = [d_senders EXCEPT ![w] = @ (-) SetToBag({m})]
  /\ UNCHANGED <<d_now, d_count, d_running, is_schedule_enabled,
                 prev_ended_dt, prev_command_dt, d_events, tray_icon, item_enabled,
                 menu_is_enabled, d_skipped, d_alloc, d_handled>>
  /\ UNCHANGED daemonFrame

EventName(w, is_start) ==
  CASE w = "sync" -> IF is_start THEN "SyncStarted" ELSE "SyncEnded"
    [] w = "maintain" -> IF is_start THEN "MaintainStarted" ELSE "MaintainEnded"
    [] w = "allocate" -> IF is_start THEN "AllocateStarted" ELSE "AllocateEnded"

\* daemon.rs:360-364
FlagAfter(is_enabled, message_type) ==
  CASE message_type = "ScheduleDisable" -> FALSE
    [] message_type = "ScheduleEnable" -> TRUE
    [] OTHER -> is_enabled

StartsIgnoringFlag(m, is_enabled, prev_ended) ==
  \/ m.message_type = "StartByManual"
  \/ /\ m.message_type = "StartBySchedule"
     /\ ~(prev_ended # None /\ m.command_dt < prev_ended)

StartsIgnoringEnd(m, is_enabled, prev_ended) ==
  \/ m.message_type = "StartByManual"
  \/ /\ m.message_type = "StartBySchedule"
     /\ is_enabled

\* daemon.rs:364-372: whether the worker goes on to run the command
Starts(m, is_enabled, prev_ended) ==
  \/ m.message_type = "StartByManual"
  \/ /\ m.message_type = "StartBySchedule"
     /\ is_enabled
     /\ ~(prev_ended # None /\ m.command_dt < prev_ended)

\* daemon.rs:359-378 (sync), 419-435 (maintain): one message received
WorkerRecv(w) ==
  /\ d_running[w] = NoMessage
  /\ d_rx[w] # <<>>
  /\ LET m == Head(d_rx[w])
     IN /\ d_rx' = [d_rx EXCEPT ![w] = Tail(@)]
        /\ is_schedule_enabled' =
             [is_schedule_enabled EXCEPT ![w] = FlagAfter(@, m.message_type)]
        /\ IF Starts(m, is_schedule_enabled[w], prev_ended_dt[w])
           THEN /\ d_events' = Append(d_events, [name |-> EventName(w, TRUE), is_ok |-> <<>>])
                /\ d_running' = [d_running EXCEPT ![w] = m]
                /\ d_skipped' = d_skipped
           ELSE /\ d_events' = d_events
                /\ d_running' = d_running
                /\ d_skipped' =
                     IF m.message_type = "StartBySchedule"
                     THEN d_skipped \cup
                            {[worker |-> w, in_run |-> m.in_run,
                              reason |-> IF ~is_schedule_enabled[w] THEN "disabled" ELSE "late"]}
                     ELSE d_skipped
  /\ UNCHANGED <<d_now, d_count, d_senders, prev_ended_dt, prev_command_dt,
                 tray_icon, item_enabled, menu_is_enabled, d_alloc, d_handled>>
  /\ UNCHANGED daemonFrame

\* sync returns one result for each repository, maintain one result
RunResults(w, m) ==
  IF w = "sync" THEN [1..Len(m.repo_paths) -> BOOLEAN] ELSE {<<TRUE>>, <<FALSE>>}

\* daemon.rs:388-399 (sync), 447-461 (maintain): the run ends
WorkerEnd(w) ==
  /\ d_running[w] # NoMessage
  /\ \E run_ok \in RunResults(w, d_running[w]) :
       d_events' = Append(d_events, [name |-> EventName(w, FALSE), is_ok |-> run_ok])
  /\ prev_ended_dt' = [prev_ended_dt EXCEPT ![w] = d_now]
  /\ d_running' = [d_running EXCEPT ![w] = NoMessage]
  /\ UNCHANGED <<d_now, d_count, d_senders, d_rx, is_schedule_enabled,
                 prev_command_dt, tray_icon, item_enabled, menu_is_enabled, d_skipped, d_alloc, d_handled>>
  /\ UNCHANGED daemonFrame

\* daemon.rs:480-501: the allocate worker starts a pass with the watermark
\* it holds
AllocRecv ==
  /\ d_running["allocate"] = NoMessage
  /\ d_rx["allocate"] # <<>>
  /\ LET m == Head(d_rx["allocate"])
     IN /\ d_rx' = [d_rx EXCEPT !["allocate"] = Tail(@)]
        /\ d_events' = Append(d_events, [name |-> EventName("allocate", TRUE), is_ok |-> <<>>])
        /\ d_running' = [d_running EXCEPT !["allocate"] = m]
        /\ d_alloc' = [command_dt |-> m.command_dt, received_since |-> prev_command_dt,
                        is_ok |-> "running", prev_ok |-> d_alloc.is_ok]
  /\ UNCHANGED <<d_now, d_count, d_senders, is_schedule_enabled, prev_ended_dt,
                 prev_command_dt, tray_icon, item_enabled, menu_is_enabled, d_skipped, d_handled>>
  /\ UNCHANGED daemonFrame

PrevCommandDtIfOk(prev, command_dt, run_ok) == IF run_ok THEN command_dt ELSE prev

\* daemon.rs:507
PrevCommandDt(prev, command_dt, run_ok) == command_dt

\* daemon.rs:496-507: the pass ends
AllocEnd ==
  /\ d_running["allocate"] # NoMessage
  /\ \E run_ok \in BOOLEAN :
       /\ d_events' = Append(d_events, [name |-> EventName("allocate", FALSE),
                                        is_ok |-> <<run_ok>>])
       /\ prev_command_dt' =
            PrevCommandDt(prev_command_dt, d_running["allocate"].command_dt, run_ok)
       /\ d_alloc' = [d_alloc EXCEPT !.is_ok = OverallMarker(run_ok)]
  /\ d_running' = [d_running EXCEPT !["allocate"] = NoMessage]
  /\ UNCHANGED <<d_now, d_count, d_senders, d_rx, is_schedule_enabled,
                 prev_ended_dt, tray_icon, item_enabled, menu_is_enabled, d_skipped, d_handled>>
  /\ UNCHANGED daemonFrame

\* daemon.rs:715
IsOkAll(run_ok) == ~Contains(run_ok, FALSE)

\* daemon.rs:726-732
IconAfterSyncEnded(is_ok_all) == IF is_ok_all THEN "error" ELSE "base"

\* daemon.rs:665, 725-733, 773, 825-828, 844-847, 898-901
IconAfter(e, icon, enabled) ==
  CASE e.name \in {"SyncStarted", "MaintainStarted"} -> "active"
    [] e.name = "SyncEnded" ->
         IF enabled["maintain"] THEN IconAfterSyncEnded(IsOkAll(e.is_ok)) ELSE icon
    [] e.name = "MaintainEnded" -> IF enabled["sync"] THEN "base" ELSE icon
    [] e.name = "AllocateStarted" ->
         IF enabled["sync"] /\ enabled["maintain"] THEN "active" ELSE icon
    [] e.name = "AllocateEnded" ->
         IF enabled["sync"] /\ enabled["maintain"] THEN "base" ELSE icon

\* daemon.rs:667-668, 719-720, 776, 824, 849, 897
ItemsAfter(e, enabled) ==
  CASE e.name = "SyncStarted" -> [enabled EXCEPT !["sync"] = FALSE]
    [] e.name = "SyncEnded" -> [enabled EXCEPT !["sync"] = TRUE]
    [] e.name = "MaintainStarted" -> [enabled EXCEPT !["maintain"] = FALSE]
    [] e.name = "MaintainEnded" -> [enabled EXCEPT !["maintain"] = TRUE]
    [] e.name = "AllocateStarted" -> [enabled EXCEPT !["allocate"] = FALSE]
    [] e.name = "AllocateEnded" -> [enabled EXCEPT !["allocate"] = TRUE]

Handled(e) ==
  /\ d_events' = Tail(d_events)
  /\ tray_icon' = IconAfter(e, tray_icon, item_enabled)
  /\ item_enabled' = ItemsAfter(e, item_enabled)
  /\ d_handled' = [event |-> e, is_maintain_enabled |-> item_enabled["maintain"],
                   is_maintain_idle |-> d_running["maintain"] = NoMessage]

\* daemon.rs:714-763: the event loop handles SyncEnded and asks for an
\* allocation
HandleSyncEnded ==
  /\ d_events # <<>>
  /\ Head(d_events).name = "SyncEnded"
  /\ Handled(Head(d_events))
  /\ Spawned("allocate", "StartByManual", AllRepoPaths)
  /\ UNCHANGED <<d_now, d_count, d_rx, d_running, is_schedule_enabled, prev_ended_dt,
                 prev_command_dt, menu_is_enabled, d_skipped, d_alloc>>
  /\ UNCHANGED daemonFrame

\* daemon.rs:664-713, 772-914: the event loop handles another user event
HandleEvent ==
  /\ d_events # <<>>
  /\ Head(d_events).name # "SyncEnded"
  /\ Handled(Head(d_events))
  /\ UNCHANGED <<d_now, d_count, d_senders, d_rx, d_running,
                 is_schedule_enabled, prev_ended_dt, prev_command_dt, menu_is_enabled,
                 d_skipped, d_alloc>>
  /\ UNCHANGED daemonFrame

NextDaemon ==
  \/ Tick
  \/ \E w \in Scheduled : ToggleClick(w)
  \/ SyncAllClick
  \/ \E each_index \in 1..NumRepos : SyncEachClick(each_index)
  \/ MaintainAllClick
  \/ AllocateClick
  \/ \E w \in Scheduled : ScheduleTrigger(w)
  \/ \E w \in Workers : Deliver(w)
  \/ \E w \in Scheduled : WorkerRecv(w)
  \/ \E w \in Scheduled : WorkerEnd(w)
  \/ AllocRecv
  \/ AllocEnd
  \/ HandleSyncEnded
  \/ HandleEvent

SpecDaemon == InitDaemon /\ [][NextDaemon]_vars

\* ---- the three commands, each called on its own (daemon.rs:386-396,
\* 446-456, 494-504; main.rs:62-86) ----
InitCommands == Init \/ InitSyncCmd \/ InitMaintain

NextCommands == Next \/ NextSyncCmd \/ NextMaintain

SpecCommands == InitCommands /\ [][NextCommands]_vars

\* ======================= claims =======================

\* the for loop over the send paths of the repository has ended
RepoPassDone == pc = "send" /\ send_todo = {}

\* the pass is inside a repository, its listings taken
InRepo == pc \in {"send", "get"}

\* the fetch loop is running on path p
Fetching(p) == pc = "get" /\ send_path = p

C2_NoContentOpOnUncommitted ==
  InRepo =>
    \A p \in tracked_paths :
      mtime[p] > commit_date => (p \notin opPaths /\ ~Fetching(p))

C2_Witness ==
  /\ RepoPassDone
  /\ \E p \in guarded : mtime[p] > commit_date
  /\ opPaths # {}

\* C3: a fetch that fails on every attempt is invoked exactly 4 times, after
\* which the repository is marked unhealthy.
C3_FetchExactlyFour ==
  /\ getCalls <= 4
  /\ (pc = "send" /\ getCalls > 0 /\ send_path \in lastOpFailed)
       => (getCalls = 4 /\ ~is_repo_ok)

C3_Witness ==
  /\ pc = "send"
  /\ getCalls = 4
  /\ send_path \in lastOpFailed
  /\ ~present[send_path]

\* C4: a repository's result is true exactly when none of its drops failed and
\* none of its fetches ran out of attempts, and the returned result is true
\* exactly when that holds of every repository.
C4_ResultIsConjunction ==
  /\ RepoPassDone => (is_repo_ok <=> ~RepoOpFailed)
  /\ pc = "repo" => (is_ok <=> ~someRepoFailed)
  /\ pc = "done" => (result <=> ~someRepoFailed)

C4_Witness ==
  /\ RepoPassDone
  /\ repo_index = NumRepos - 1
  /\ someRepoFailed
  /\ ~is_ok
  /\ is_repo_ok
  /\ opPaths # {}

\* a path whose marker and content state agree
Settled(p) == has_file_drop_attr(tags, p) <=> ~present[p]

\* C5: a failed drop or an exhausted fetch stops nothing: at the end of the
\* repository every send path has been brought to agreement unless its own
\* operation failed, what succeeded stays done, and the pass returns only
\* after the last repository.
C5_FailureDoesNotStopPass ==
  /\ RepoPassDone => \A p \in send_paths : Settled(p) \/ p \in lastOpFailed
  /\ pc = "send" => \A p \in opPaths \ lastOpFailed : Settled(p)
  /\ pc = "done" => repo_index = NumRepos

C5_Witness ==
  /\ RepoPassDone
  /\ repo_index = 1
  /\ someRepoFailed
  /\ \E p, q \in send_paths :
       /\ p < q
       /\ p \in lastOpFailed
       /\ present[p]
       /\ q \in opPaths \ lastOpFailed

\* C6: test_available_remotes is called at most once per repository in a pass.
C6_ProbeAtMostOnce == probeCalls <= 1

C6_Witness ==
  /\ RepoPassDone
  /\ probeCalls = 1
  /\ Cardinality(opPaths) >= 2

\* C7: a repository is probed only if content-drop or content-fetch is then
\* invoked on one of its files; the uncommitted-edit guard alone causes no probe.
C7_ProbeOnlyWhenContentOp ==
  (RepoPassDone /\ probeCalls > 0) => opPaths # {}

\* C8: a full pass has received_paths = tracked_paths and no send path, invokes
\* no drop and no fetch and never probes; a repository without send paths is
\* never probed.
C8_FullPassNoContentOp ==
  /\ (InRepo /\ received_since = None) =>
       /\ received_paths = tracked_paths
       /\ send_paths = {}
       /\ opPaths = {}
       /\ pc # "get"
       /\ probeCalls = 0
  /\ (InRepo /\ send_paths = {}) => probeCalls = 0

C8_Witness ==
  /\ RepoPassDone
  /\ received_since = None
  /\ tracked_paths = Paths
  /\ tracked_dropped_paths = Paths
  /\ probeCalls = 0

\* the one URL of Urls on the encrypted rsync transport
IsEncryptedRsync(u) == u = <<"gcrypt::", "rsync://", "host">>

Usable(r) == ~IsEncryptedRsync(url[r]) \/ probes[r].ok

\* C9: the prober returns the listed remotes that are not on the encrypted
\* rsync transport or whose reachability check succeeded, in listing order.
C9_AvailableIsFilteredListing ==
  probed => available_remotes = SelectSeq(remotes, Usable)

C9_Witness ==
  /\ probed
  /\ Len(remotes) >= 2
  /\ remotes[1] > remotes[2]
  /\ IsEncryptedRsync(url[remotes[1]])
  /\ ~IsEncryptedRsync(url[remotes[2]])
  /\ available_remotes = <<remotes[1], remotes[2]>>

\* C10: after the probe of an encrypted rsync remote its configuration holds
\* ignore=false and the computed cost if the check succeeded, and ignore=true
\* with the cost entry as it was if the check failed, whatever it held before.
C10_ConfigAfterProbe ==
  probed =>
    \A r \in RemoteNames :
      (Listed(remotes, r) /\ IsEncryptedRsync(url[r])) =>
        IF probes[r].ok
        THEN config[r] = [cost |-> ProbeCost(probes[r].ms), ignore |-> "false"]
        ELSE config[r] = [cost |-> config0[r].cost, ignore |-> "true"]

C10_Witness ==
  /\ probed
  /\ \E r, q \in RemoteNames :
       /\ config0[r] = [cost |-> 209, ignore |-> "true"]
       /\ config[r] = [cost |-> 200, ignore |-> "false"]
       /\ config0[q] = [cost |-> 209, ignore |-> "false"]
       /\ config[q] = [cost |-> 209, ignore |-> "true"]

\* C11: a listed remote whose URL is not on the encrypted rsync transport gets
\* no reachability check and no write of a cost or ignore entry, keeps its
\* configuration, and is in the returned list.
C11_OtherTransportUntouched ==
  probed =>
    \A r \in RemoteNames :
      (Listed(remotes, r) /\ ~IsEncryptedRsync(url[r])) =>
        /\ lsRemoteCalls[r] = 0
        /\ \A w \in configWrites : w[1] # r
        /\ config[r] = config0[r]
        /\ Contains(available_remotes, r)

C11_Witness ==
  /\ probed
  /\ \E r, q \in RemoteNames :
       /\ Listed(remotes, r) /\ Listed(remotes, q)
       /\ url[r] = <<"gcrypt::", "ssh://", "host">>
       /\ config0[r] = [cost |-> 209, ignore |-> "true"]
       /\ Contains(available_remotes, r)
       /\ lsRemoteCalls[q] = 1

\* C12: the cost written for a reachable remote is 200 + floor(ms / 100) of
\* the check's duration: 200 for 50 ms, 209 for 950 ms, and never smaller for
\* a longer check.
C12_CostOfDuration ==
  probed =>
    \A r \in RemoteNames :
      (Listed(remotes, r) /\ IsEncryptedRsync(url[r]) /\ probes[r].ok) =>
        /\ (config[r].cost - 200) * 100 <= probes[r].ms
        /\ probes[r].ms < (config[r].cost - 200 + 1) * 100
        /\ probes[r].ms = 50 => config[r].cost = 200
        /\ probes[r].ms = 950 => config[r].cost = 209
        /\ \A q \in RemoteNames :
             (Listed(remotes, q) /\ IsEncryptedRsync(url[q]) /\ probes[q].ok
                /\ probes[r].ms <= probes[q].ms)
               => config[r].cost <= config[q].cost

C12_Witness ==
  /\ probed
  /\ \E r, q \in RemoteNames :
       /\ Listed(remotes, r) /\ Listed(remotes, q)
       /\ probes[r].ok /\ probes[r].ms = 50 /\ config[r].cost = 200
       /\ probes[q].ok /\ probes[q].ms = 950 /\ config[q].cost = 209
       /\ <<r, "annex-cost">> \in configWrites
       /\ <<q, "annex-cost">> \in configWrites

\* C13: one probe pass runs the reachability check once on each listed
\* encrypted rsync remote, also when the check fails, and on no other remote.
C13_OneCheckPerRemote ==
  probed =>
    \A r \in RemoteNames :
      lsRemoteCalls[r] =
        IF Listed(remotes, r) /\ IsEncryptedRsync(url[r]) THEN 1 ELSE 0

C13_Witness ==
  /\ probed
  /\ \E r, q \in RemoteNames :
       /\ Listed(remotes, r) /\ IsEncryptedRsync(url[r])
       /\ ~probes[r].ok /\ lsRemoteCalls[r] = 1
       /\ Listed(remotes, q) /\ IsEncryptedRsync(url[q])
       /\ probes[q].ok /\ lsRemoteCalls[q] = 1

\* a pass of the mirror synchronizer has returned
SyncPassDone == pc = "sync" /\ s_pass > 0

Range(seq) == {seq[i] : i \in 1..Len(seq)}

\* C14: after a pass of the mirror synchronizer that met no failure coming
\* from outside the two trees, the mirror holds exactly the relative paths of
\* the source, whatever the mirror held before, also when a directory and its
\* contents have gone from the source.
C14_MirrorCompleteness ==
  (SyncPassDone /\ s_last.faults = {}) => RelPaths(copy) = RelPaths(master)

\* C15: of two passes in succession over an unchanged source, the first
\* undisturbed, the second performs no copy, mkdir or remove on the mirror.
C15_SecondPassIdle ==
  (SyncPassDone /\ s_pass >= 2 /\ s_prevFaultFree) => s_last.ops = {}

\* C16 as claimed: a pass in which a copy, mkdir or remove failed has still
\* walked every source entry, attempted every unprocessed mirror path and
\* stamped the watermark.
C16_FailureDoesNotAbort ==
  (SyncPassDone /\ s_last.errors # {}) =>
    /\ s_last.walked = RelPaths(master)
    /\ s_last.attempted = Range(s_last.unprocessed)
    /\ s_last.stamped
    /\ copy_mtime = NowOfPass(s_pass)

\* C16: a failed copy, mkdir or remove inside the mirror stops nothing: every
\* source entry is walked, every unprocessed mirror path is attempted, the
\* watermark is stamped.  When the mirror root itself cannot be created the
\* pass leaves this mirror: nothing is walked and nothing is stamped.
C16_FailureInsideMirrorDoesNotAbort ==
  SyncPassDone =>
    IF s_last.root_error
    THEN /\ s_last.walked = {}
         /\ s_last.attempted = {}
         /\ ~s_last.stamped
         /\ copy_mtime = None
         /\ s_last.errors = {<<"mkdir", Root>>}
    ELSE /\ s_last.walked = RelPaths(master)
         /\ s_last.attempted = Range(s_last.unprocessed)
         /\ s_last.stamped
         /\ copy_mtime = NowOfPass(s_pass)

C16_Witness ==
  /\ SyncPassDone
  /\ ~s_last.root_error
  /\ s_last.stamped
  /\ \E n \in s_last.walked : <<"cp", n>> \in s_last.faults
  /\ \E a, b \in s_last.attempted :
       a < b /\ <<"rmdir", a>> \in s_last.errors /\ <<"rm", b>> \in s_last.ops \ s_last.errors

\* C17 and C18: the timeout of the maintenance pass has expired
Expired == m_pc = "expired"

\* C17: once the timeout of a maintenance pass has expired no external
\* command is started any more, for no repository; the invocation has returned
\* false and logged "not ok".
C17_ExpiryStopsPass ==
  [][ /\ Expired' => (m_result' = FALSE /\ m_log_sync' = <<"not ok">> /\ m_log' = <<"not ok">>)
      /\ Expired => (m_running' = NoStep /\ m_todo' = m_todo /\ Expired') ]_vars

C17_Witness ==
  /\ Expired
  /\ m_repo_index = 0
  /\ m_todo # <<>>
  /\ m_killed.kind = "git-fsck"
  /\ m_result = FALSE

\* C18: whichever external process the pass awaits when the timeout expires is
\* terminated: none is left running.
C18_ExpiryKillsProcess ==
  Expired => m_orphan = NoStep

\* the command runner has ended, by returning or by panicking
RunnerEnded == r_pc \in {"returned", "panicked"}

IsMarker(entry) == entry.type \in {"ok", "not ok"}

LoggedLines == SelectSeq(r_log, LAMBDA entry : entry.type = "line")

\* C19: when the command runner returns, every line of text the child wrote
\* has been appended to the log, in the order the lines were written: none is
\* left unread in a pipe.
C19_EveryLineLogged ==
  r_pc = "returned" =>
    /\ \A i \in 1..Len(r_out) : ~r_out[i].utf8
    /\ \A i \in 1..Len(r_err) : ~r_err[i].utf8
    /\ \A i, j \in 1..Len(LoggedLines) : i < j => LoggedLines[i].n < LoggedLines[j].n

\* C20: an execution of the command runner has logged the prefix first and a
\* terminal marker last, one marker in all, "ok" exactly when the child exited
\* with success, and returns true exactly when the marker is "ok".
C20_PrefixThenOneMarker ==
  RunnerEnded =>
    /\ r_pc = "returned"
    /\ r_log[1] = LogPrefix
    /\ IsMarker(r_log[Len(r_log)])
    /\ Len(SelectSeq(r_log, IsMarker)) = 1
    /\ r_log[Len(r_log)] = LogMarker(r_exit_ok)
    /\ r_success <=> r_log[Len(r_log)].type = "ok"

\* the command has returned to its caller
AllocateReturned == pc = "done"

SyncReturned == y_pc = "returned"

MaintainReturned == m_pc \in {"expired", "returned"}

\* C21: when allocate, sync or maintain has returned, the last line of its
\* log is "ok" if what it returned is overall success (true; for sync a list
\* without false) and "not ok" otherwise.
C21_LastLineIsResult ==
  /\ AllocateReturned => a_log_last = (IF result THEN "ok" ELSE "not ok")
  /\ SyncReturned => y_log_last = (IF Contains(repo_ok, FALSE) THEN "not ok" ELSE "ok")
  /\ MaintainReturned =>
       /\ m_log # <<>>
       /\ m_log[Len(m_log)] = (IF m_result THEN "ok" ELSE "not ok")

C21_Witness ==
  /\ MaintainReturned
  /\ m_repo_index = NumRepos - 1
  /\ m_killed.kind = "git-annex-fsck"
  /\ ~m_result
  /\ m_log = <<"not ok">>

\* the for loop is about to visit send path p
Visiting(p) == pc = "send" /\ send_todo # {} /\ p = NextSendPath

C24_SettledUntouched ==
  [][ (pc \in {"list", "send", "get"} /\ pc' # "repo") =>
        \A p \in tracked_paths :
          Settled(p) =>
            /\ tags'[p] = tags[p]
            /\ present'[p] = present[p]
            /\ p \in opPaths' => p \in opPaths ]_vars

C24_Witness ==
  /\ RepoPassDone
  /\ received_since # None
  /\ \E p, q \in tracked_paths :
       /\ p \in send_paths /\ p \notin opPaths /\ p \notin guarded
       /\ has_file_drop_attr(tags, p) /\ ~present[p]
       /\ q \in opPaths

\* C25: the step in which a drop fails, a fetch attempt fails or the fetch
\* loop gives up leaves the file's tags as they were; back in the send loop a
\* file whose drop failed still carries the marker and a file whose fetch was
\* exhausted still carries none.
C25_FailureKeepsMarker ==
  [][ /\ \A p \in lastOpFailed' \ lastOpFailed : tags'[p] = tags[p]
      /\ (pc = "get" /\ pc' = "send" /\ ~is_command_ok) => tags' = tags
      /\ pc' = "send" =>
           \A p \in lastOpFailed' :
             has_file_drop_attr(tags', p) <=> p \notin tracked_dropped_paths' ]_vars

C25_Witness ==
  /\ RepoPassDone
  /\ \E p, q \in lastOpFailed :
       /\ p \notin tracked_dropped_paths /\ has_file_drop_attr(tags, p) /\ present[p]
       /\ q \in tracked_dropped_paths /\ ~has_file_drop_attr(tags, q) /\ ~present[q]
  /\ getCalls = 4

\* C26: git annex get runs at most 4 times on a file and only while no run on
\* it has succeeded; once a run has succeeded the loop ends with the marker
\* clear and the repository's health as it was.
C26_FetchStopsAtSuccess ==
  [][ /\ getCalls' <= GET_MAX_CT
      /\ getCalls' > getCalls =>
           (~is_command_ok /\ ~present[send_path] /\ send_path' = send_path)
      /\ (pc = "get" /\ is_command_ok) =>
           /\ pc' = "send"
           /\ getCalls' = getCalls
           /\ ~has_file_drop_attr(tags', send_path)
           /\ present'[send_path]
           /\ is_repo_ok' = is_repo_ok ]_vars

C26_Witness ==
  /\ pc = "send"
  /\ getCalls = 3
  /\ send_path \notin lastOpFailed
  /\ send_path \in tracked_dropped_paths
  /\ present[send_path]
  /\ ~has_file_drop_attr(tags, send_path)
  /\ is_repo_ok

\* C27: in a watermark pass over a repository none of whose tracked paths has
\* a modification time after the watermark, the listing step leaves
\* received_paths empty, does not run git annex log, changes no tag and makes
\* every tracked path a send path.
C27_NothingModified ==
  [][ (pc = "list" /\ received_since # None
         /\ \A p \in tracked_paths : mtime[p] <= received_since) =>
        /\ received_paths' = {}
        /\ ~logQueried'
        /\ tags' = tags
        /\ send_paths' = tracked_paths ]_vars

C27_Witness ==
  /\ pc = "send"
  /\ received_since = 1
  /\ tracked_paths = Paths
  /\ send_todo = Paths
  /\ \E p \in Paths : mtime[p] = received_since
  /\ \A p \in Paths : mtime[p] <= received_since
  /\ ~logQueried
  /\ received_paths = {}
  /\ send_paths = Paths
  /\ \E p \in Paths : has_file_drop_attr(tags, p) /\ present[p]

\* a pass of the mirror synchronizer has walked the source
SyncWalkDone == SyncPassDone /\ ~s_last.root_error

\* C28: in a pass that walked the source, fs::copy was invoked on a source
\* file whose relative path the mirror held at the start exactly when there
\* was no watermark or the file's modification time was strictly later than
\* the watermark read at the start, and it was invoked on every source file
\* whose relative path the mirror did not hold.
C28_CopyWhenNewerOrNew ==
  SyncWalkDone =>
    \A n \in Entries :
      master[n] = "file" =>
        (<<"cp", n>> \in s_last.ops <=>
           \/ n \notin s_last.before
           \/ s_last.prev_mtime = None
           \/ master_mtime[n] > s_last.prev_mtime)

C28_Witness ==
  /\ SyncWalkDone
  /\ s_last.prev_mtime # None
  /\ \E a, b \in Entries :
       /\ master[a] = "file" /\ a \in s_last.before
       /\ master_mtime[a] = s_last.prev_mtime
       /\ <<"cp", a>> \notin s_last.ops
       /\ master[b] = "file" /\ b \in s_last.before
       /\ master_mtime[b] > s_last.prev_mtime
       /\ <<"cp", b>> \in s_last.ops

\* C29: a pass never attempts to remove a mirror path that exists in the
\* source: every source path is gone from the unprocessed list when the walk
\* ends, the paths the deletion loop visits are mirror paths without a source
\* counterpart, and a mirror entry with a source counterpart is still there
\* after the pass.
C29_SourcePathsNeverDeleted ==
  SyncPassDone =>
    /\ Range(s_last.unprocessed) \cap RelPaths(master) = {}
    /\ s_last.attempted \subseteq s_last.before \ RelPaths(master)
    /\ \A n \in RelPaths(master) :
         /\ <<"rm", n>> \notin s_last.ops
         /\ <<"rmdir", n>> \notin s_last.ops
         /\ n \in s_last.before => copy[n] # "none"

C29_Witness ==
  /\ SyncWalkDone
  /\ \E a, b \in s_last.before :
       /\ a \in RelPaths(master)
       /\ copy[a] # "none"
       /\ b \notin RelPaths(master)
       /\ b \in s_last.attempted
       /\ copy[b] = "none"

\* C30: in a pass of sync() a repository for which the prober returned no
\* remote has false in repo_ok and git annex assist was not run on it, and
\* the pass returns only after the last repository.
C30_NoRemoteNoAssist ==
  /\ \A i \in 1..Len(repo_ok) : ~y_usable[i] => (~repo_ok[i] /\ ~y_assisted[i])
  /\ y_pc = "returned" => Len(repo_ok) = NumRepos

C30_Witness ==
  /\ y_pc = "returned"
  /\ ~y_usable[1] /\ ~repo_ok[1] /\ ~y_assisted[1]
  /\ y_usable[NumRepos] /\ repo_ok[NumRepos] /\ y_assisted[NumRepos]

\* sync() has left the repository it was in
SyncCmdLeftRepo == y_pc \in {"probe", "returned"} /\ y_repo_index > 0

Position(seq, x) == CHOOSE i \in 1..Len(seq) : seq[i] = x

\* C31: when sync() leaves a repository the last command it ran on it is git
\* update-index --no-assume-unchanged, whether git annex assist succeeded,
\* failed or was not run; git update-index --assume-unchanged was run exactly
\* when --all was not given, and then before git annex assist.
C31_FlagsResetAfterAssist ==
  /\ y_pc = "reset" => \A i \in 1..Len(y_commands) :
                         y_commands[i] # "git-update-index-no-assume-unchanged"
  /\ SyncCmdLeftRepo =>
       /\ y_commands # <<>>
       /\ y_commands[Len(y_commands)] = "git-update-index-no-assume-unchanged"
       /\ Contains(y_commands, "git-update-index-assume-unchanged") <=> ~includes_all
       /\ ~includes_all => y_commands[1] = "git-update-index-assume-unchanged"
       /\ Contains(y_commands, "git-annex-assist") <=> y_assisted[y_repo_index]
       /\ Contains(y_commands, "git-annex-assist") =>
            Position(y_commands, "git-annex-assist") = Len(y_commands) - 1

C31_Witness ==
  /\ y_pc = "returned"
  /\ ~includes_all
  /\ y_commands = <<"git-update-index-assume-unchanged", "git-annex-assist",
                    "git-update-index-no-assume-unchanged">>
  /\ ~repo_ok[NumRepos]
  /\ ~y_assisted[1]

\* C32: a maintenance pass that ran to completion has logged "ok" and returned
\* true, also when one of its commands exited unsuccessfully or a repository
\* had no remote available; it has returned false only when the timeout expired.
C32_FailsOnlyOnTimeout ==
  /\ m_pc = "returned" => (m_result /\ m_log = <<"ok">> /\ m_log_sync = <<>>)
  /\ (MaintainReturned /\ ~m_result) => Expired

C32_Witness ==
  /\ m_pc = "returned"
  /\ m_result
  /\ m_cmd_failed
  /\ m_unreachable

\* C33: after a call of a marker setter every tag other than the marker that
\* the file carried before the call is still there, and a call that found the
\* marker already as requested has written nothing.
C33_OtherTagsKept ==
  x_call.op # "none" =>
    /\ \A i \in 1..Len(x_call.before) :
         x_call.before[i] # TAG_XATTR_DROP_ITEM_VALUE =>
           Contains(x_tags[x_call.path], x_call.before[i])
    /\ (x_call.op = "set" /\ Contains(x_call.before, TAG_XATTR_DROP_ITEM_VALUE))
         => (~x_call.wrote /\ x_tags[x_call.path] = x_call.before)
    /\ (x_call.op = "unset" /\ ~Contains(x_call.before, TAG_XATTR_DROP_ITEM_VALUE))
         => (~x_call.wrote /\ x_tags[x_call.path] = x_call.before)

\* the allocate worker takes a request and starts a pass
AllocationStarts == d_running["allocate"] = NoMessage /\ d_running'["allocate"] # NoMessage

\* C34: the first allocation pass of the daemon is given no watermark, and
\* every later pass is given the command timestamp of the request before it,
\* whatever the result of that request's pass.
C34_WatermarkIsPreviousRequest ==
  [][ AllocationStarts =>
        /\ d_alloc'.command_dt = d_running'["allocate"].command_dt
        /\ d_alloc'.received_since =
             (IF d_alloc = NoAllocation THEN None ELSE d_alloc.command_dt) ]_vars

C34_Witness ==
  /\ d_running["allocate"] # NoMessage
  /\ d_alloc.prev_ok = "not ok"
  /\ d_alloc.received_since # None
  /\ d_alloc.command_dt > d_alloc.received_since

\* the sync or maintain worker takes a message out of its channel
Receiving(w) == d_running[w] = NoMessage /\ d_rx[w] # <<>> /\ d_rx'[w] = <<>>

NoRunStarts(w) == d_running'[w] = NoMessage /\ d_events' = d_events

\* C35: a sync or maintain worker that takes a StartBySchedule message while
\* its schedule flag is disabled starts no run, and one that takes a
\* StartByManual message starts the run, whatever the flag.
C35_ScheduleNeedsFlag ==
  [][ \A w \in Scheduled :
        Receiving(w) =>
          /\ (Head(d_rx[w]).message_type = "StartBySchedule" /\ ~is_schedule_enabled[w])
               => NoRunStarts(w)
          /\ Head(d_rx[w]).message_type = "StartByManual"
               => /\ d_running'[w] = Head(d_rx[w])
                  /\ Len(d_events') = Len(d_events) + 1 ]_vars

C35_Witness ==
  \E w \in Scheduled :
    /\ ~is_schedule_enabled[w]
    /\ d_running[w].message_type = "StartByManual"
    /\ d_running[w].command_dt > 0

\* C36: a sync or maintain worker that takes a StartBySchedule message whose
\* timestamp is before the end time of the worker's previous run starts no run.
C36_LateTriggerDiscarded ==
  [][ \A w \in Scheduled :
        (/\ Receiving(w)
         /\ Head(d_rx[w]).message_type = "StartBySchedule"
         /\ prev_ended_dt[w] # None
         /\ Head(d_rx[w]).command_dt < prev_ended_dt[w]) => NoRunStarts(w) ]_vars

C36_Witness ==
  \E w \in Scheduled :
    /\ [worker |-> w, in_run |-> TRUE, reason |-> "late"] \in d_skipped
    /\ d_running[w] = NoMessage
    /\ d_rx[w] = <<>>
    /\ is_schedule_enabled[w]

TogglePending(w) ==
  \E m \in BagToSet(d_senders[w]) \cup {d_rx[w][i] : i \in 1..Len(d_rx[w])} :
    m.message_type \in {"ScheduleEnable", "ScheduleDisable"}

\* C37: once the worker has taken every enable and disable message, its
\* schedule flag is the flag the menu shows.
C37_WorkerFlagFollowsMenu ==
  \A w \in Scheduled : ~TogglePending(w) => is_schedule_enabled[w] = menu_is_enabled[w]

\* C38: no allocation pass is in progress while a sync pass is in progress on
\* one of its repositories.
C38_NeverTogether ==
  ~ /\ d_running["sync"] # NoMessage
    /\ d_running["allocate"] # NoMessage
    /\ \E i \in 1..Len(d_running["sync"].repo_paths) :
         Contains(d_running["allocate"].repo_paths, d_running["sync"].repo_paths[i])

\* C39: after the event loop has handled the end of a sync run with no
\* maintenance run in progress, the tray icon is the error icon when a
\* repository's sync failed and the base icon when every one succeeded.
C39_IconTellsFailure ==
  (/\ d_handled.event.name = "SyncEnded"
   /\ d_handled.is_maintain_enabled
   /\ d_handled.is_maintain_idle)
    => tray_icon = (IF Contains(d_handled.event.is_ok, FALSE) THEN "error" ELSE "base")

====
